---------------------------- MODULE Spec2Model ----------------------------
(***************************************************************************)
(* A model of tori-scrape-lib-rs: the timestamp resolver                   *)
(* (Parser::parse_posted_at, DateParser::parse), the price parser and the  *)
(* item extractor (Parser::parse_document).                                *)
(*                                                                         *)
(* Text is a sequence of one-character strings.  An instant is a number of *)
(* seconds since 1970-01-01T00:00:00Z; a naive (local wall-clock)          *)
(* date-time is the same count read without a timezone.                    *)
(***************************************************************************)
EXTENDS Integers, Sequences, FiniteSets, TLC

VARIABLES parser, pc, last, doc, idx, items, examined

vars == <<parser, pc, last, doc, idx, items, examined>>

-----------------------------------------------------------------------------
(* Characters and text                                                     *)

Digits == <<"0", "1", "2", "3", "4", "5", "6", "7", "8", "9">>

Lower == <<"a", "b", "c", "d", "e", "f", "g", "h", "i", "j", "k", "l", "m",
           "n", "o", "p", "q", "r", "s", "t", "u", "v", "w", "x", "y", "z">>

Upper == <<"A", "B", "C", "D", "E", "F", "G", "H", "I", "J", "K", "L", "M",
           "N", "O", "P", "Q", "R", "S", "T", "U", "V", "W", "X", "Y", "Z">>

Range(f) == {f[i] : i \in DOMAIN f}

\* the one element of a singleton set; The({e(x) : x \in {v}}) is e with x
\* standing for the value v
The(S) == CHOOSE v \in S : TRUE

\* \d of the regex crate, restricted to the ASCII digits
IsDigit(c) == c \in Range(Digits)

\* \s of the regex crate and char::is_whitespace
IsSpace(c) == c \in {" ", "\t", "\n"}

\* [a-zA-Z]
IsAlpha(c) == c \in Range(Lower) \cup Range(Upper)

DigitVal(c) == (CHOOSE i \in DOMAIN Digits : Digits[i] = c) - 1

\* char::to_lowercase on the characters of the model
LowerChar(c) ==
    IF c \in Range(Upper) THEN Lower[CHOOSE i \in DOMAIN Upper : Upper[i] = c]
    ELSE c

\* str::to_lowercase
to_lowercase(s) == [i \in DOMAIN s |-> LowerChar(s[i])]

\* s[from..] : the text from position `from` (1-based) on
Drop(s, from) == SubSeq(s, from, Len(s))

\* str::starts_with at a position: does `w` occur in `s` at position p
OccursAt(s, p, w) ==
    /\ p >= 1
    /\ p + Len(w) - 1 <= Len(s)
    /\ SubSeq(s, p, p + Len(w) - 1) = w

\* the first position >= p of s that holds no whitespace (Len(s)+1 if none)
RECURSIVE SkipSpace(_, _)
SkipSpace(s, p) ==
    IF p <= Len(s) /\ IsSpace(s[p]) THEN SkipSpace(s, p + 1) ELSE p

\* the first position >= p of s that holds whitespace (Len(s)+1 if none)
RECURSIVE SkipToken(_, _)
SkipToken(s, p) ==
    IF p <= Len(s) /\ ~IsSpace(s[p]) THEN SkipToken(s, p + 1) ELSE p

\* str::split_whitespace: the maximal whitespace-free pieces of s, in order
RECURSIVE SplitFrom(_, _)
SplitFrom(s, p) ==
    The({ IF b > Len(s) THEN <<>>
          ELSE The({ <<SubSeq(s, b, e - 1)>> \o SplitFrom(s, e) : e \in {SkipToken(s, b)} })
          : b \in {SkipSpace(s, p)} })

split_whitespace(s) == SplitFrom(s, 1)

\* [&str]::join(sep)
RECURSIVE join(_, _)
join(v, sep) ==
    IF Len(v) = 0 THEN <<>>
    ELSE IF Len(v) = 1 THEN v[1]
    ELSE v[1] \o sep \o join(Tail(v), sep)

\* Iterator<&str>::collect::<String>(): concatenation
concat(v) == join(v, <<>>)

\* a reformat_ws that only drops the whitespace at the start
reformat_ws_leading_only(input) == Drop(input, SkipSpace(input, 1))

reformat_ws(input) == join(split_whitespace(input), <<" ">>)

\* str::trim
trim(s) ==
    The({ IF b > Len(s) THEN <<>>
          ELSE SubSeq(s, b, CHOOSE k \in b..Len(s) :
                                /\ ~IsSpace(s[k])
                                /\ \A j \in (k + 1)..Len(s) : IsSpace(s[j]))
          : b \in {SkipSpace(s, 1)} })

\* Option<T>
None == [some |-> FALSE]
Some(v) == [some |-> TRUE, val |-> v]

PREFIX == <<"i", "t", "e", "m", "_">>

\* str::strip_prefix("item_")
strip_prefix(s) ==
    IF OccursAt(s, 1, PREFIX) THEN Some(Drop(s, Len(PREFIX) + 1)) ELSE None

-----------------------------------------------------------------------------
(* Result<T, E>                                                            *)

Ok(v) == [ok |-> TRUE, val |-> v]
Err(e) == [ok |-> FALSE, err |-> e]

\* DateParseError / ParseError
InvalidHighlevelStructure(s) == [kind |-> "InvalidHighlevelStructure", raw |-> s]
InvalidDay(s) == [kind |-> "InvalidDay", raw |-> s]
InvalidTime(s) == [kind |-> "InvalidTime", raw |-> s]
InvalidMonth(s) == [kind |-> "InvalidMonth", raw |-> s]
InvalidRelativeDay(s) == [kind |-> "InvalidRelativeDay", raw |-> s]
ArithmeticProblem == [kind |-> "ArithmeticProblem", raw |-> <<>>]

-----------------------------------------------------------------------------
(* The proleptic Gregorian calendar of chrono's NaiveDate                  *)

SecsPerDay == 86400

IsLeap(y) == (y % 4 = 0 /\ y % 100 # 0) \/ y % 400 = 0

DaysInMonth(y, m) ==
    IF m = 2 THEN (IF IsLeap(y) THEN 29 ELSE 28)
    ELSE IF m \in {4, 6, 9, 11} THEN 30
    ELSE 31

\* NaiveDate::from_ymd_opt is Some
ValidDate(y, m, d) == m \in 1..12 /\ d \in 1..DaysInMonth(y, m)

\* days from 1970-01-01 to the date y-m-d
DaysFromCivil(y, m, d) ==
    LET yy  == IF m <= 2 THEN y - 1 ELSE y
        era == yy \div 400
        yoe == yy - era * 400
        mp  == IF m > 2 THEN m - 3 ELSE m + 9
        doy == (153 * mp + 2) \div 5 + d - 1
        doe == yoe * 365 + yoe \div 4 - yoe \div 100 + doy
    IN  era * 146097 + doe - 719468

\* the date <<y, m, d>> that lies z days after 1970-01-01
CivilFromDays(z) ==
    LET zz  == z + 719468
        era == zz \div 146097
        doe == zz - era * 146097
        yoe == (doe - doe \div 1460 + doe \div 36524 - doe \div 146096) \div 365
        doy == doe - (365 * yoe + yoe \div 4 - yoe \div 100)
        mp  == (5 * doy + 2) \div 153
        d   == doy - (153 * mp + 2) \div 5 + 1
        m   == IF mp < 10 THEN mp + 3 ELSE mp - 9
        y   == yoe + era * 400
    IN  <<IF m <= 2 THEN y + 1 ELSE y, m, d>>

\* NaiveDateTime::new(date, time) for a valid date and time of day
Naive(y, m, d, h, mi, s) == DaysFromCivil(y, m, d) * SecsPerDay + h * 3600 + mi * 60 + s

\* the fields of a naive date-time
NaiveFields(n) ==
    The({ [year |-> ymd[1], month |-> ymd[2], day |-> ymd[3],
           hour |-> sod \div 3600, minute |-> (sod % 3600) \div 60, second |-> sod % 60]
          : ymd \in {CivilFromDays(n \div SecsPerDay)}, sod \in {n % SecsPerDay} })

\* NaiveDateTime::date as a day count
NaiveDate(n) == n \div SecsPerDay

-----------------------------------------------------------------------------
(* chrono_tz::Tz: the two zones of the model                               *)

Helsinki == "Europe/Helsinki"
UTC == "UTC"
Zones == {Helsinki, UTC}

\* the day count of the last Sunday of a 31-day month (1970-01-01 is a Thursday)
LastSunday(y, m) == The({ d31 - ((d31 + 4) % 7) : d31 \in {DaysFromCivil(y, m, 31)} })

\* EU summer time: from 01:00 UTC on the last Sunday of March ...
DstStart(y) == LastSunday(y, 3) * SecsPerDay + 3600
\* ... to 01:00 UTC on the last Sunday of October
DstEnd(y) == LastSunday(y, 10) * SecsPerDay + 3600

\* TimeZone::offset_from_utc_datetime: seconds east of UTC at instant u
utc_offset(tz, u) ==
    IF tz = UTC THEN 0
    ELSE The({ IF DstStart(y) <= u /\ u < DstEnd(y) THEN 10800 ELSE 7200
               : y \in {CivilFromDays(u \div SecsPerDay)[1]} })

\* DateTime<Tz>
DateTime(tz, u) == [tz |-> tz, utc |-> u]

\* DateTime::naive_local
naive_local(dt) == dt.utc + utc_offset(dt.tz, dt.utc)

\* TimeZone::from_local_datetime as the set of instants whose local reading
\* is n: empty (LocalResult::None), one (Single) or two (Ambiguous)
from_local_datetime(tz, n) ==
    {u \in {n, n - 7200, n - 10800} : u + utc_offset(tz, u) = n}

\* LocalResult::single
single(lr) == IF Cardinality(lr) = 1 THEN Some(The(lr)) ELSE None

\* TimeZone::with_ymd_and_hms
with_ymd_and_hms(tz, y, m, d, h, mi, s) ==
    IF ValidDate(y, m, d) /\ h \in 0..23 /\ mi \in 0..59 /\ s \in 0..59
    THEN from_local_datetime(tz, Naive(y, m, d, h, mi, s))
    ELSE {}

\* DateTime<Tz>::with_year (Datelike): the same local month, day and time
\* in `year`, if that date exists and its local time is a single instant
with_year(dt, year) ==
    The({ IF ValidDate(year, f.month, f.day)
          THEN single(from_local_datetime(dt.tz,
                   Naive(year, f.month, f.day, f.hour, f.minute, f.second)))
          ELSE None
          : f \in {NaiveFields(naive_local(dt))} })

\* DateTime<Tz>::checked_sub_days(Days::new(1)): the same wall-clock time on
\* the previous local date, if it is a single instant there
checked_sub_days(dt) == single(from_local_datetime(dt.tz, naive_local(dt) - SecsPerDay))

\* a date_naive that reads the date of the instant in UTC
date_naive_utc(dt) == NaiveDate(dt.utc)

\* DateTime::date_naive (a day count), DateTime::year
date_naive(dt) == NaiveDate(naive_local(dt))
year(dt) == NaiveFields(naive_local(dt)).year

-----------------------------------------------------------------------------
(* The token parsers                                                       *)

MonthNames == << <<"t", "a", "m">>, <<"h", "e", "l">>, <<"m", "a", "a">>,
                 <<"h", "u", "h">>, <<"t", "o", "u">>, <<"k", "e", "s">>,
                 <<"h", "e", "i">>, <<"e", "l", "o">>, <<"s", "y", "y">>,
                 <<"l", "o", "k">>, <<"m", "a", "r">>, <<"j", "o", "u">> >>

\* the match over the twelve names: the month's number (Month::number_from_month)
MonthMatch(name, given) ==
    The({ IF hit = {} THEN Err(InvalidMonth(given)) ELSE Ok(The(hit))
          : hit \in {{i \in DOMAIN MonthNames : MonthNames[i] = name}} })

\* a parse_month_short whose error carries the lowercased name
parse_month_short_lowercased_error(month_short_name) ==
    MonthMatch(to_lowercase(month_short_name), to_lowercase(month_short_name))

\* parsing.rs (and lib.rs): the name is lowercased before the match
parse_month_short(month_short_name) ==
    MonthMatch(to_lowercase(month_short_name), month_short_name)

\* dateparser.rs: the name is matched as given
DateParser_parse_month_short(month_short_name) ==
    MonthMatch(month_short_name, month_short_name)

\* the number of digits at the start of s, at most `most`
RECURSIVE LeadingDigits(_, _)
LeadingDigits(s, most) ==
    IF most > 0 /\ Len(s) > 0 /\ IsDigit(s[1])
    THEN 1 + LeadingDigits(Tail(s), most - 1)
    ELSE 0

\* the value of a text of digits when it is at most `cap`, and `cap` for
\* every larger value
RECURSIVE DecimalFrom(_, _, _)
DecimalFrom(s, acc, cap) ==
    IF Len(s) = 0 THEN acc
    ELSE IF acc > (cap - DigitVal(s[1])) \div 10 THEN cap
    ELSE DecimalFrom(Tail(s), acc * 10 + DigitVal(s[1]), cap)

\* chrono's scan::number(s, 1, 2) after trim_start: one or two digits
ScanNumber(s) ==
    The({ The({ IF n = 0 THEN None
                ELSE Some([value |-> DecimalFrom(SubSeq(t, 1, n), 0, 100),
                           rest |-> Drop(t, n + 1)])
                : n \in {LeadingDigits(t, 2)} })
          : t \in {Drop(s, SkipSpace(s, 1))} })

\* NaiveTime::parse_from_str(time, "%H:%M"): a NaiveTime or InvalidTime
\* the minute item, after the hour item `hh` and the literal ":"
ScanMinute(hh) ==
    IF hh.some /\ Len(hh.val.rest) > 0 /\ hh.val.rest[1] = ":"
    THEN ScanNumber(Tail(hh.val.rest))
    ELSE None

\* a parse_hh_mm that lets the hour 24 through
parse_hh_mm_upto_24(time) ==
    The({ The({ IF /\ hh.some
                   /\ mm.some
                   /\ Len(mm.val.rest) = 0
                   /\ hh.val.value <= 24
                   /\ mm.val.value <= 59
                THEN Ok([hour |-> hh.val.value, minute |-> mm.val.value, second |-> 0])
                ELSE Err(InvalidTime(time))
                : mm \in {ScanMinute(hh)} })
          : hh \in {ScanNumber(time)} })

parse_hh_mm(time) ==
    The({ The({ IF /\ hh.some
                   /\ mm.some
                   /\ Len(mm.val.rest) = 0
                   /\ hh.val.value <= 23
                   /\ mm.val.value <= 59
                THEN Ok([hour |-> hh.val.value, minute |-> mm.val.value, second |-> 0])
                ELSE Err(InvalidTime(time))
                : mm \in {ScanMinute(hh)} })
          : hh \in {ScanNumber(time)} })

DayCap == 1000000000

\* str::parse::<u32>: an optional "+", then digits only; values of DayCap
\* and more (overflow included) count as DayCap, which parse_day rejects alike
parse_u32(s) ==
    The({ IF Len(t) > 0 /\ \A i \in DOMAIN t : IsDigit(t[i])
          THEN Some(DecimalFrom(t, 0, DayCap))
          ELSE None
          : t \in {IF Len(s) > 0 /\ s[1] = "+" THEN Tail(s) ELSE s} })

parse_day(day) ==
    The({ IF d.some /\ d.val >= 1 /\ d.val <= 31 THEN Ok(d.val) ELSE Err(InvalidDay(day))
          : d \in {parse_u32(day)} })

-----------------------------------------------------------------------------
(* The two timestamp grammars: Regex::captures finds the leftmost match    *)
(* anywhere in the text                                                    *)

eilen == <<"e", "i", "l", "e", "n">>
tanaan == <<"t", "ä", "n", "ä", "ä", "n">>

\* \d{2}:\d{2} at position p
HhmmAt(s, p) ==
    /\ p >= 1
    /\ p + 4 <= Len(s)
    /\ IsDigit(s[p]) /\ IsDigit(s[p + 1])
    /\ s[p + 2] = ":"
    /\ IsDigit(s[p + 3]) /\ IsDigit(s[p + 4])

\* (eilen|tänään)\s+(\d{2}:\d{2}) with the word `w` at position p
RelAt(s, p, w) ==
    /\ OccursAt(s, p, w)
    /\ \E r \in {SkipSpace(s, p + Len(w))} : r > p + Len(w) /\ HhmmAt(s, r)

\* REL_TIME.captures(ts): the groups of the leftmost match
\* the least element of a set of numbers
Min(S) == CHOOSE x \in S : \A y \in S : x <= y

\* the groups of the match with the word w at position p
RelGroups(ts, p, w) ==
    The({ Some([relday_s |-> w, hhmm_s |-> SubSeq(ts, r, r + 4)])
          : r \in {SkipSpace(ts, p + Len(w))} })

REL_TIME_captures(ts) ==
    The({ IF hits = {} THEN None
          ELSE The({ RelGroups(ts, p, IF OccursAt(ts, p, eilen) THEN eilen ELSE tanaan)
                     : p \in {Min(hits)} })
          : hits \in {{p \in 1..Len(ts) : RelAt(ts, p, eilen) \/ RelAt(ts, p, tanaan)}} })

\* (\d{1,2})\s+([a-zA-Z]{3})\s+(\d{2}:\d{2}) with a day of n digits at p
AbsAt(s, p, n) ==
    /\ p + n - 1 <= Len(s)
    /\ \A i \in p..(p + n - 1) : IsDigit(s[i])
    /\ \E r \in {SkipSpace(s, p + n)} :
           /\ r > p + n
           /\ r + 2 <= Len(s)
           /\ \A i \in r..(r + 2) : IsAlpha(s[i])
           /\ \E r2 \in {SkipSpace(s, r + 3)} : r2 > r + 3 /\ HhmmAt(s, r2)

\* ABS_TIME.captures(ts): the leftmost match, two day digits before one
\* the groups of the match with a day of n digits at position p
AbsGroups(ts, p, n) ==
    The({ The({ Some([day_s |-> SubSeq(ts, p, p + n - 1),
                      month_s |-> SubSeq(ts, r, r + 2),
                      hhmm_s |-> SubSeq(ts, r2, r2 + 4)])
                : r2 \in {SkipSpace(ts, r + 3)} })
          : r \in {SkipSpace(ts, p + n)} })

ABS_TIME_captures(ts) ==
    The({ IF hits = {} THEN None
          ELSE The({ AbsGroups(ts, p, IF AbsAt(ts, p, 2) THEN 2 ELSE 1) : p \in {Min(hits)} })
          : hits \in {{p \in 1..Len(ts) : AbsAt(ts, p, 2) \/ AbsAt(ts, p, 1)}} })

-----------------------------------------------------------------------------
(* Parser (parsing.rs) and DateParser (dateparser.rs)                      *)

NoParser == [state |-> "none"]
Panicked == [state |-> "panicked"]

\* Parser::new: `fetch_time.sub(Days::new(1))` panics when checked_sub_days
\* is None
Parser_new(fetch_time) ==
    The({ IF y.some
          THEN [state |-> "ok", type |-> "Parser",
                user_today |-> fetch_time,
                user_yesterday |-> DateTime(fetch_time.tz, y.val)]
          ELSE Panicked
          : y \in {checked_sub_days(fetch_time)} })

\* DateParser::new
DateParser_new(server_time, user_tz) ==
    The({ IF y.some
          THEN [state |-> "ok", type |-> "DateParser",
                user_tz |-> user_tz, server_time |-> server_time,
                user_today |-> DateTime(user_tz, server_time),
                user_yesterday |-> DateTime(user_tz, y.val)]
          ELSE Panicked
          : y \in {checked_sub_days(DateTime(user_tz, server_time))} })

\* a match that takes the earlier instant of an ambiguous local time
SingleOrArithmetic_earliest(lr) ==
    IF lr # {} THEN Ok(CHOOSE u \in lr : \A v \in lr : u <= v) ELSE Err(ArithmeticProblem)

\* LocalResult::Single(ts) => Ok(ts), _ => Err(ArithmeticProblem)
SingleOrArithmetic(lr) ==
    IF Cardinality(lr) = 1 THEN Ok(The(lr)) ELSE Err(ArithmeticProblem)

\* a match on the day word without the arm of "eilen"
RelDay_today_only(self, relday_s) ==
    IF relday_s = tanaan THEN Ok(self.user_today)
    ELSE Err(InvalidRelativeDay(relday_s))

\* the date chosen by the relative day word
RelDay(self, relday_s) ==
    IF relday_s = tanaan THEN Ok(self.user_today)
    ELSE IF relday_s = eilen THEN Ok(self.user_yesterday)
    ELSE Err(InvalidRelativeDay(relday_s))

\* Parser::parse_rel_time
parse_rel_time(self, relday_s, hhmm_s) ==
    The({ IF ~naive_time.ok THEN naive_time
          ELSE IF ~day.ok THEN day
          ELSE SingleOrArithmetic(from_local_datetime(self.user_today.tz,
                   date_naive(day.val) * SecsPerDay + naive_time.val.hour * 3600
                       + naive_time.val.minute * 60 + naive_time.val.second))
          : naive_time \in {parse_hh_mm(hhmm_s)}, day \in {RelDay(self, relday_s)} })

\* the date fields of `date` with the time of day `hhmm`, in the zone of `date`
AtTimeOfDay(date, hhmm) ==
    The({ with_ymd_and_hms(date.tz, f.year, f.month, f.day, hhmm.hour, hhmm.minute, 0)
          : f \in {NaiveFields(naive_local(date))} })

\* DateParser::parse_rel_time
DateParser_parse_rel_time(self, relday_s, hhmm_s) ==
    The({ IF ~hhmm.ok THEN hhmm
          ELSE IF ~day.ok THEN day
          ELSE SingleOrArithmetic(AtTimeOfDay(day.val, hhmm.val))
          : hhmm \in {parse_hh_mm(hhmm_s)}, day \in {RelDay(self, relday_s)} })

\* new_ts.with_year(new_ts.year() - y_offset).ok_or(ArithmeticProblem)
WithYearBack(dt, y_offset) ==
    The({ IF back.some THEN Ok(back.val) ELSE Err(ArithmeticProblem)
          : back \in {with_year(dt, year(dt) - y_offset)} })

\* no rollback: the candidate stays in the year of the anchor
Rollback_none(tz, new_ts, now) ==
    WithYearBack(DateTime(tz, new_ts), 0)

\* a rollback that also takes a candidate equal to `now` a year back
Rollback_inclusive(tz, new_ts, now) ==
    WithYearBack(DateTime(tz, new_ts), IF new_ts >= now THEN 1 ELSE 0)

\* the year rollback shared by both parse_abs_time: `now` is the instant the
\* candidate new_ts is compared with
Rollback(tz, new_ts, now) ==
    WithYearBack(DateTime(tz, new_ts), IF new_ts > now THEN 1 ELSE 0)

\* the candidate of both parse_abs_time: the day and month in the year of
\* user_today, then the rollback against `now`
Candidate(self, day, month, naive_time, now) ==
    The({ IF ~new_ts_maybe.ok THEN new_ts_maybe
          ELSE Rollback(self.user_today.tz, new_ts_maybe.val, now)
          : new_ts_maybe \in {SingleOrArithmetic(with_ymd_and_hms(self.user_today.tz,
                year(self.user_today), month, day, naive_time.hour, naive_time.minute, 0))} })

\* a parse_abs_time that validates the month before the day
parse_abs_time_month_first(self, day_s, month_s, hhmm_s) ==
    The({ IF ~month.ok THEN month
          ELSE IF ~day.ok THEN day
          ELSE IF ~naive_time.ok THEN naive_time
          ELSE Candidate(self, day.val, month.val, naive_time.val, self.user_today.utc)
          : day \in {parse_day(day_s)},
            month \in {parse_month_short(month_s)},
            naive_time \in {parse_hh_mm(hhmm_s)} })

\* Parser::parse_abs_time
parse_abs_time(self, day_s, month_s, hhmm_s) ==
    The({ IF ~day.ok THEN day
          ELSE IF ~month.ok THEN month
          ELSE IF ~naive_time.ok THEN naive_time
          ELSE Candidate(self, day.val, month.val, naive_time.val, self.user_today.utc)
          : day \in {parse_day(day_s)},
            month \in {parse_month_short(month_s)},
            naive_time \in {parse_hh_mm(hhmm_s)} })

\* DateParser::parse_abs_time
DateParser_parse_abs_time(self, day_s, month_s, hhmm_s) ==
    The({ IF ~day.ok THEN day
          ELSE IF ~month.ok THEN month
          ELSE IF ~hhmm.ok THEN hhmm
          ELSE Candidate(self, day.val, month.val, hhmm.val, self.server_time)
          : day \in {parse_day(day_s)},
            month \in {DateParser_parse_month_short(month_s)},
            hhmm \in {parse_hh_mm(hhmm_s)} })

\* a parse_posted_at that tries the absolute grammar first
posted_at_call_abs_first(self, ts) ==
    The({ IF abs.some
          THEN [grammar |-> "abs",
                res |-> parse_abs_time(self, abs.val.day_s, abs.val.month_s, abs.val.hhmm_s)]
          ELSE The({ IF rel.some
                     THEN [grammar |-> "rel",
                           res |-> parse_rel_time(self, rel.val.relday_s, rel.val.hhmm_s)]
                     ELSE [grammar |-> "none", res |-> Err(InvalidHighlevelStructure(ts))]
                     : rel \in {REL_TIME_captures(ts)} })
          : abs \in {ABS_TIME_captures(ts)} })

\* Parser::parse_posted_at, with the grammar whose parser was called
posted_at_call(self, ts) ==
    The({ IF rel.some
          THEN [grammar |-> "rel",
                res |-> parse_rel_time(self, rel.val.relday_s, rel.val.hhmm_s)]
          ELSE The({ IF abs.some
                     THEN [grammar |-> "abs",
                           res |-> parse_abs_time(self, abs.val.day_s, abs.val.month_s,
                                                  abs.val.hhmm_s)]
                     ELSE [grammar |-> "none", res |-> Err(InvalidHighlevelStructure(ts))]
                     : abs \in {ABS_TIME_captures(ts)} })
          : rel \in {REL_TIME_captures(ts)} })

parse_posted_at(self, ts) == posted_at_call(self, ts).res

\* DateParser::parse, with the grammar whose parser was called
DateParser_parse_call(self, ts) ==
    The({ IF rel.some
          THEN [grammar |-> "rel",
                res |-> DateParser_parse_rel_time(self, rel.val.relday_s, rel.val.hhmm_s)]
          ELSE The({ IF abs.some
                     THEN [grammar |-> "abs",
                           res |-> DateParser_parse_abs_time(self, abs.val.day_s,
                                       abs.val.month_s, abs.val.hhmm_s)]
                     ELSE [grammar |-> "none", res |-> Err(InvalidHighlevelStructure(ts))]
                     : abs \in {ABS_TIME_captures(ts)} })
          : rel \in {REL_TIME_captures(ts)} })

DateParser_parse(self, ts) == DateParser_parse_call(self, ts).res

-----------------------------------------------------------------------------
(* The price parser                                                        *)

I32Max == 2147483647

\* does the value of a text of digits stay within `max`
RECURSIVE FitsFrom(_, _, _)
FitsFrom(s, acc, max) ==
    IF Len(s) = 0 THEN TRUE
    ELSE IF acc > (max - DigitVal(s[1])) \div 10 THEN FALSE
    ELSE FitsFrom(Tail(s), acc * 10 + DigitVal(s[1]), max)

\* a conversion that stops at the largest value instead of failing
parse_i32_saturating(s) ==
    IF Len(s) > 0 /\ (\A i \in DOMAIN s : IsDigit(s[i]))
    THEN Some(DecimalFrom(s, 0, I32Max))
    ELSE None

\* str::parse::<i32> on a text of digits (all that PRICE_PATT lets through)
parse_i32(s) ==
    IF Len(s) > 0 /\ (\A i \in DOMAIN s : IsDigit(s[i])) /\ FitsFrom(s, 0, I32Max)
    THEN Some(DecimalFrom(s, 0, I32Max))
    ELSE None

\* the last position of the run of [0-9\s] that starts at p
RECURSIVE RunEnd(_, _)
RunEnd(s, p) ==
    IF p + 1 <= Len(s) /\ (IsDigit(s[p + 1]) \/ IsSpace(s[p + 1]))
    THEN RunEnd(s, p + 1)
    ELSE p

\* ([0-9][0-9\s]*)\s+(€) with the first digit at p: the run of digits and
\* whitespace from p ends in whitespace and meets the unit
PriceAt(s, p) ==
    /\ IsDigit(s[p])
    /\ \E e \in {RunEnd(s, p)} :
           /\ IsSpace(s[e])
           /\ e + 1 <= Len(s)
           /\ s[e + 1] = "€"

\* PRICE_PATT.captures(input): the groups of the leftmost match; the first
\* group is greedy and leaves one whitespace character to \s+
PriceGroups(input, p) ==
    The({ Some([value_s |-> SubSeq(input, p, e - 1), unit |-> <<input[e + 1]>>])
          : e \in {RunEnd(input, p)} })

PRICE_PATT_captures(input) ==
    The({ IF hits = {} THEN None ELSE PriceGroups(input, Min(hits))
          : hits \in {{p \in 1..Len(input) : PriceAt(input, p)}} })

\* ItemParseErrorKind
MissingAttribute(a) == [kind |-> "MissingAttribute", attr |-> a]
UnexpectedValue(a, s) == [kind |-> "UnexpectedValue", attr |-> a, raw |-> s]
InvalidPrice(s) == [kind |-> "InvalidPrice", raw |-> s]
InvalidDate(e) == [kind |-> "InvalidDate", date |-> e]

\* a Price of the first digit group alone
price_of_first_group(input, patts) ==
    The({ IF value.some
          THEN Ok([value |-> value.val, unit |-> patts.unit])
          ELSE Err(InvalidPrice(input))
          : value \in {parse_i32(split_whitespace(patts.value_s)[1])} })

\* the Price of the groups `patts`, if the digits of the first group fit
price_of(input, patts) ==
    The({ IF value.some
          THEN Ok([value |-> value.val, unit |-> patts.unit])
          ELSE Err(InvalidPrice(input))
          : value \in {parse_i32(concat(split_whitespace(patts.value_s)))} })

price_parse(input) ==
    The({ IF patts.some THEN price_of(input, patts.val) ELSE Err(InvalidPrice(input))
          : patts \in {PRICE_PATT_captures(input)} })

-----------------------------------------------------------------------------
(* The item extractor.  A listing node (one match of ROW_SELECTOR) is a    *)
(* record of what the extractor reads from it: the attributes id,          *)
(* data-company-ad and href, the text of the first price node, the src of  *)
(* the first image, the inner html of the first title node and of the      *)
(* first date node (each an Option), and the inner html of the combined    *)
(* nodes in document order.                                                *)

\* an ItemParseError that never carries the id
ItemParseError_no_id(i, id, e) == [item_idx |-> i, item_id |-> None, error |-> e]

ItemParseError(i, id, e) == [item_idx |-> i, item_id |-> id, error |-> e]

\* a price step that takes an unparsable text for no price
price_field_lenient(i, item_id, element) ==
    IF ~(element.price.some /\ Len(element.price.val) > 0) THEN Ok(None)
    ELSE The({ IF r.ok THEN Ok(Some(r.val)) ELSE Ok(None)
               : r \in {price_parse(element.price.val)} })

\* a price step that gives an empty text to price_parse
price_field_strict(i, item_id, element) ==
    IF ~element.price.some THEN Ok(None)
    ELSE The({ IF r.ok THEN Ok(Some(r.val))
               ELSE Err(ItemParseError(i, Some(item_id), r.err))
               : r \in {price_parse(element.price.val)} })

\* the price step: no node or empty text is no price
price_field(i, item_id, element) ==
    IF ~(element.price.some /\ Len(element.price.val) > 0) THEN Ok(None)
    ELSE The({ IF r.ok THEN Ok(Some(r.val))
               ELSE Err(ItemParseError(i, Some(item_id), r.err))
               : r \in {price_parse(element.price.val)} })

\* the text of each element of a sequence, whitespace-normalized
RECURSIVE MapReformat(_)
MapReformat(v) ==
    IF Len(v) = 0 THEN <<>> ELSE <<reformat_ws(v[1])>> \o MapReformat(Tail(v))

\* a seller that is Some also when no combined node is left for it
seller_field_always_some(combined) ==
    Some(join(MapReformat(SubSeq(combined, 3, Len(combined))), <<" ">>))

\* the seller: the combined nodes after the second, joined by spaces
seller_field(combined) ==
    The({ IF Len(v) = 0 THEN None ELSE Some(join(v, <<" ">>))
          : v \in {MapReformat(SubSeq(combined, 3, Len(combined)))} })

\* a loop body that looks for the title before the price
listing_steps_title_first(i, item_id, element, price, posted_at, posted_at_parsed) ==
    LET err(e) == Err(ItemParseError(i, Some(item_id), e))
        s == element.company_ad
        combined == element.combined
    IN  IF ~s.some THEN err(MissingAttribute("CompanyAd"))
        ELSE IF s.val # <<"0">> /\ s.val # <<"1">>
        THEN err(UnexpectedValue("CompanyAd", s.val))
        ELSE IF ~element.href.some THEN err(MissingAttribute("Href"))
        ELSE IF ~element.title.some THEN err(MissingAttribute("Title"))
        ELSE IF ~price.ok THEN price
        ELSE IF ~element.posted_at.some THEN err(MissingAttribute("PostedAt"))
        ELSE IF ~posted_at_parsed.ok THEN err(InvalidDate(posted_at_parsed.err))
        ELSE IF Len(combined) < 1 THEN err(MissingAttribute("Location"))
        ELSE IF Len(combined) < 2 THEN err(MissingAttribute("Direction"))
        ELSE Ok([item_id |-> item_id,
                 direction |-> reformat_ws(combined[2]),
                 title |-> trim(element.title.val),
                 is_company_ad |-> (s.val = <<"1">>),
                 href |-> element.href.val,
                 price |-> price.val,
                 thumbnail_url |-> element.img,
                 posted_at_orig |-> posted_at,
                 posted_at |-> posted_at_parsed.val,
                 location |-> reformat_ws(combined[1]),
                 seller |-> seller_field(combined)])

\* the steps of the loop body after the id is known, in the code's order;
\* price, posted_at and posted_at_parsed are the values those steps compute
listing_steps(i, item_id, element, price, posted_at, posted_at_parsed) ==
    LET err(e) == Err(ItemParseError(i, Some(item_id), e))
        s == element.company_ad
        combined == element.combined
    IN  IF ~s.some THEN err(MissingAttribute("CompanyAd"))
        ELSE IF s.val # <<"0">> /\ s.val # <<"1">>
        THEN err(UnexpectedValue("CompanyAd", s.val))
        ELSE IF ~element.href.some THEN err(MissingAttribute("Href"))
        ELSE IF ~price.ok THEN price
        ELSE IF ~element.title.some THEN err(MissingAttribute("Title"))
        ELSE IF ~element.posted_at.some THEN err(MissingAttribute("PostedAt"))
        ELSE IF ~posted_at_parsed.ok THEN err(InvalidDate(posted_at_parsed.err))
        ELSE IF Len(combined) < 1 THEN err(MissingAttribute("Location"))
        ELSE IF Len(combined) < 2 THEN err(MissingAttribute("Direction"))
        ELSE Ok([item_id |-> item_id,
                 direction |-> reformat_ws(combined[2]),
                 title |-> trim(element.title.val),
                 is_company_ad |-> (s.val = <<"1">>),
                 href |-> element.href.val,
                 price |-> price.val,
                 thumbnail_url |-> element.img,
                 posted_at_orig |-> posted_at,
                 posted_at |-> posted_at_parsed.val,
                 location |-> reformat_ws(combined[1]),
                 seller |-> seller_field(combined)])

\* the text of the date node, whitespace-normalized (empty without a node)
posted_at_text(element) ==
    IF element.posted_at.some THEN reformat_ws(element.posted_at.val) ELSE <<>>

\* a loop body that takes the anchor anew for each listing, a day later
\* for each one
listing_fields_anchor_anew(self, i, item_id, element) ==
    The({ The({ listing_steps(i, item_id, element, price, posted_at, posted_at_parsed)
                : posted_at_parsed \in
                    {parse_posted_at(
                         [self EXCEPT !.user_today.utc = @ + i * SecsPerDay,
                                      !.user_yesterday.utc = @ + i * SecsPerDay],
                         posted_at)} })
          : price \in {price_field(i, item_id, element)},
            posted_at \in {posted_at_text(element)} })

listing_fields(self, i, item_id, element) ==
    The({ The({ listing_steps(i, item_id, element, price, posted_at, posted_at_parsed)
                : posted_at_parsed \in {parse_posted_at(self, posted_at)} })
          : price \in {price_field(i, item_id, element)},
            posted_at \in {posted_at_text(element)} })

\* one pass of the loop body of Parser::parse_document on the i-th listing
\* node: the Item, or the ItemParseError that the `?` returns
parse_listing(self, i, element) ==
    IF ~element.id.some
    THEN Err(ItemParseError(i, None, MissingAttribute("ID")))
    ELSE The({ IF ~item_id.some
               THEN Err(ItemParseError(i, None, UnexpectedValue("ID", element.id.val)))
               ELSE listing_fields(self, i, item_id.val, element)
               : item_id \in {strip_prefix(element.id.val)} })

-----------------------------------------------------------------------------
(* The inputs of the model                                                 *)

\* the longest document, in listing nodes
MaxListings == 2

D2(n) == <<Digits[(n \div 10) + 1], Digits[(n % 10) + 1]>>
Hhmm(h, m) == D2(h) \o <<":">> \o D2(m)
SP == <<" ">>

\* a fetch time given by its local reading: every instant that reads so
Anchor(tz, y, m, d, h, mi, s) ==
    {DateTime(tz, u) : u \in with_ymd_and_hms(tz, y, m, d, h, mi, s)}

Anchors ==
    Anchor(Helsinki, 2023, 3, 25, 10, 52, 1)     \* the anchor of the tests
      \cup Anchor(Helsinki, 2023, 4, 21, 19, 52, 0)   \* the instant of "21 huh 19:52"
      \cup Anchor(Helsinki, 2024, 2, 10, 12, 0, 0)    \* a leap year, before 29 Feb
      \cup Anchor(Helsinki, 2024, 3, 20, 8, 0, 0)     \* a leap year, after 29 Feb
      \cup Anchor(Helsinki, 2023, 3, 26, 10, 0, 0)    \* the day summer time starts
      \cup Anchor(Helsinki, 2023, 10, 29, 10, 0, 0)   \* the day summer time ends
      \cup Anchor(Helsinki, 2023, 3, 27, 3, 30, 0)    \* a day after the skipped hour
      \cup Anchor(Helsinki, 2023, 10, 30, 3, 30, 0)   \* a day after the repeated hour
      \cup Anchor(Helsinki, 2023, 6, 15, 0, 30, 0)    \* 14 June in UTC
      \cup Anchor(Helsinki, 2024, 1, 1, 0, 30, 0)     \* 2023 in UTC
      \cup Anchor(UTC, 2023, 3, 25, 10, 52, 1)
      \cup Anchor(UTC, 2024, 3, 1, 0, 0, 0)

\* day tokens of one or two digits, and of three
DayToks2 == {<<"0">>, <<"1">>, D2(0), D2(21), D2(26), D2(29), D2(31), D2(32)}
DayToks3 == {<<"1">> \o D2(21), <<"1">> \o D2(32)}

tam == MonthNames[1]
hel == MonthNames[2]
maa == MonthNames[3]
huh == MonthNames[4]
lok == MonthNames[10]
jou == MonthNames[12]
TAM == <<"T", "A", "M">>
Huh == <<"H", "u", "h">>
foo == <<"f", "o", "o">>

MonthToks == {tam, hel, maa, huh, lok, jou, TAM, Huh, foo}

\* HH:MM tokens: (hour, minute)
TimePairs == {<<1, 23>>, <<3, 30>>, <<19, 52>>, <<23, 59>>, <<25, 48>>, <<1, 60>>}
TimeToks == {Hhmm(t[1], t[2]) : t \in TimePairs}

AbsRaw(d, mo, t) == d \o SP \o mo \o SP \o t
RelRaw(w, t) == w \o SP \o t

AbsRaws == {AbsRaw(d, mo, t) : d \in DayToks2 \cup DayToks3, mo \in MonthToks, t \in TimeToks}
RelRaws == {RelRaw(w, t) : w \in {eilen, tanaan}, t \in TimeToks \cup {Hhmm(15, 59)}}

\* texts of neither form, texts of both, and texts with more around a form
OddRaws ==
    { <<>>,
      foo,
      tanaan,
      eilen \o Hhmm(15, 59),
      AbsRaw(D2(21), huh, <<>>),
      AbsRaw(D2(21), huh \o <<"x">>, Hhmm(19, 52)),
      RelRaw(tanaan, <<"1", ":", "2", "3">>),
      RelRaw(<<"E", "i", "l", "e", "n">>, Hhmm(15, 59)),
      RelRaw(<<"h", "u", "o", "m", "e", "n", "n", "a">>, Hhmm(10, 0)),
      AbsRaw(D2(21), huh, Hhmm(19, 52)) \o SP \o RelRaw(eilen, Hhmm(15, 59)),
      RelRaw(eilen, Hhmm(15, 59)) \o SP \o AbsRaw(D2(21), huh, Hhmm(19, 52)),
      tanaan \o SP \o AbsRaw(D2(21), huh, Hhmm(19, 52)),
      <<"x">> \o SP \o RelRaw(tanaan, Hhmm(1, 23)) \o SP \o <<"y">>,
      RelRaw(tanaan, Hhmm(12, 34) \o <<"5">>),
      <<" ", "\t">> \o D2(21) \o <<" ", " ">> \o huh \o <<"\n">> \o Hhmm(19, 52) \o SP,
      SP \o eilen \o <<"\t", " ">> \o Hhmm(15, 59) \o <<"\n">> }

Raws == AbsRaws \cup RelRaws \cup OddRaws

\* arguments of the token parsers when called on their own
MonthArgs ==
    Range(MonthNames) \cup {TAM, Huh, foo, <<"t", "a">>, <<"t", "a", "m", "m">>, <<>>,
                            <<"J", "O", "U">>, <<"m", "a", "R">>, <<"J", "O", "x">>}

DayArgs ==
    {<<"0">>, <<"1">>, <<"9">>, D2(10), D2(31), D2(32), D2(0), D2(1), D2(99),
     <<"0">> \o D2(31), <<"1">> \o D2(21), <<"+", "5">>, <<"-", "1">>, <<>>,
     <<"1", "a">>, D2(42) \o D2(94) \o D2(96) \o D2(72) \o D2(96)}

TimeArgs ==
    {Hhmm(h, m) : h \in {0, 1, 12, 23, 24, 25, 99}, m \in {0, 23, 59, 60, 99}}
      \cup {<<"1", ":", "2", "3">>, <<"1", "2", ":", "3">>, Hhmm(12, 34) \o <<"5">>,
            <<"1">> \o Hhmm(23, 45), <<"a", "b", ":", "c", "d">>, <<>>, D2(12),
            D2(12) \o <<":">>}

EUR == <<"€">>

PriceArgs ==
    { <<"1">> \o SP \o EUR,
      SP \o <<"1">> \o SP \o <<"5", "9", "9">> \o <<" ", " ">> \o EUR,
      <<"f", "r", "e", "e">>,
      <<>>,
      EUR,
      <<"1">> \o EUR,
      D2(12) \o SP \o <<"$">>,
      <<"a">> \o SP \o D2(5) \o SP \o EUR \o SP \o <<"x">>,
      D2(12) \o <<"\t">> \o <<"3">> \o <<"\n">> \o EUR \o SP,
      D2(0) \o SP \o D2(7) \o SP \o EUR,
      D2(21) \o D2(47) \o D2(48) \o D2(36) \o D2(47) \o SP \o EUR,
      D2(21) \o D2(47) \o D2(48) \o D2(36) \o D2(48) \o SP \o EUR,
      D2(99) \o D2(99) \o D2(99) \o D2(99) \o D2(99) \o D2(99) \o SP \o EUR,
      <<"-", "5">> \o SP \o EUR }

\* listing nodes
Txt_item(n) == PREFIX \o n

Good ==
    [id |-> Some(Txt_item(<<"1">>)),
     company_ad |-> Some(<<"0">>),
     href |-> Some(<<"/", "a">>),
     price |-> Some(SP \o <<"1">> \o SP \o <<"5", "9", "9">> \o <<" ", " ">> \o EUR),
     img |-> Some(<<"i">>),
     title |-> Some(SP \o <<"T", " ", "t">> \o SP),
     posted_at |-> Some(SP \o eilen \o <<"\n", " ">> \o Hhmm(15, 59) \o SP),
     combined |-> << <<"L">>, <<" ", "D", " ", " ", "d">> >>]

Good2 ==
    [id |-> Some(Txt_item(<<"2">>)),
     company_ad |-> Some(<<"1">>),
     href |-> Some(<<"/", "b">>),
     price |-> None,
     img |-> None,
     title |-> Some(<<"U">>),
     posted_at |-> Some(RelRaw(tanaan, Hhmm(3, 30))),
     combined |-> << <<"L">>, <<"D">>, <<" ", "S">>, <<"s", " ">> >>]

WithId(n) == [Good EXCEPT !.id = Some(Txt_item(n))]

ListingKinds ==
    { Good,
      Good2,
      [Good EXCEPT !.id = None],
      [Good EXCEPT !.id = Some(<<"x", "3">>)],
      [WithId(<<"4">>) EXCEPT !.company_ad = None],
      [WithId(<<"5">>) EXCEPT !.company_ad = Some(<<"2">>)],
      [WithId(<<"6">>) EXCEPT !.href = None],
      [WithId(<<"7">>) EXCEPT !.price = Some(<<"f", "r", "e", "e">>), !.title = None],
      [WithId(<<"8">>) EXCEPT !.price = Some(<<>>)],
      [WithId(<<"9">>) EXCEPT !.title = None, !.combined = <<>>],
      [WithId(D2(10)) EXCEPT !.posted_at = None],
      [WithId(D2(11)) EXCEPT !.posted_at = Some(AbsRaw(D2(32), tam, Hhmm(1, 32)))],
      [WithId(D2(12)) EXCEPT !.combined = <<>>],
      [WithId(D2(13)) EXCEPT !.combined = << <<"L">> >>],
      [WithId(D2(14)) EXCEPT !.price = Some(<<"f", "r", "e", "e">>)],
      [Good EXCEPT !.id = Some(PREFIX)],
      [WithId(D2(15)) EXCEPT !.title = None],
      [WithId(D2(16)) EXCEPT !.posted_at = Some(AbsRaw(D2(32), tam, Hhmm(1, 32))),
                             !.combined = <<>>],
      [WithId(D2(17)) EXCEPT !.company_ad = Some(<<"2">>), !.href = None,
                             !.price = Some(<<"f", "r", "e", "e">>), !.img = None,
                             !.title = None, !.posted_at = None, !.combined = <<>>] }

RECURSIVE SeqsUpTo(_, _)
SeqsUpTo(S, n) ==
    IF n = 0 THEN {<<>>}
    ELSE LET shorter == SeqsUpTo(S, n - 1)
         IN  shorter \cup {Append(q, x) : q \in shorter, x \in S}

Docs == SeqsUpTo(ListingKinds, MaxListings)

\* the longest text given to reformat_ws on its own, in characters (the two
\* texts of the tests, which are longer, are given too)
MaxText == 4

Txt_foo == <<"f", "o", "o">>
Txt_bar == <<"b", "a", "r">>
Txt_baz == <<"b", "a", "z">>
TAB == <<"\t">>

WsArgs ==
    SeqsUpTo({"a", "b", " ", "\t", "\n"}, MaxText)
      \cup { TAB \o TAB \o TAB \o TAB \o TAB \o Txt_foo \o TAB \o TAB \o TAB \o Txt_bar
                 \o TAB \o TAB,
             SP \o SP \o SP \o Txt_foo \o SP \o SP \o SP \o SP \o SP \o SP \o Txt_bar \o SP
                 \o Txt_baz \o SP \o SP }

-----------------------------------------------------------------------------
(* The state machine                                                       *)

NoCall == [op |-> "none"]

Init ==
    /\ parser = NoParser
    /\ pc = "idle"
    /\ last = NoCall
    /\ doc = <<>>
    /\ idx = 0
    /\ items = <<>>
    /\ examined = {}

\* between calls nothing of an earlier parse_document is kept
NoDocument ==
    /\ pc' = "idle"
    /\ doc' = <<>>
    /\ idx' = 0
    /\ items' = <<>>
    /\ examined' = {}

\* no call is in progress and the result of the last one has been taken
Idle == pc = "idle" /\ last = NoCall

Ready == Idle /\ parser.state = "ok"

\* Parser::new(fetch_time)
ParserNew ==
    /\ Idle
    /\ parser = NoParser
    /\ \E a \in Anchors :
           /\ parser' = Parser_new(a)
           /\ last' = [op |-> "Parser::new", arg |-> a]
    /\ NoDocument

\* DateParser::new(server_time, user_tz)
DateParserNew ==
    /\ Idle
    /\ parser = NoParser
    /\ \E a \in Anchors :
           /\ parser' = DateParser_new(a.utc, a.tz)
           /\ last' = [op |-> "DateParser::new", arg |-> a]
    /\ NoDocument

\* Parser::parse_posted_at(ts)
ParsePostedAt ==
    /\ Ready
    /\ parser.type = "Parser"
    /\ \E ts \in Raws :
           \E c \in {posted_at_call(parser, ts)} :
               last' = [op |-> "parse_posted_at", arg |-> ts,
                        grammar |-> c.grammar, res |-> c.res]
    /\ NoDocument
    /\ UNCHANGED parser

\* DateParser::parse(ts)
DateParserParse ==
    /\ Ready
    /\ parser.type = "DateParser"
    /\ \E ts \in Raws :
           \E c \in {DateParser_parse_call(parser, ts)} :
               last' = [op |-> "DateParser::parse", arg |-> ts,
                        grammar |-> c.grammar, res |-> c.res]
    /\ NoDocument
    /\ UNCHANGED parser

\* the free functions, called on their own as the unit tests do
ParseMonthShort ==
    /\ Idle
    /\ parser = NoParser
    /\ \E m \in MonthArgs :
           last' = [op |-> "parse_month_short", arg |-> m, res |-> parse_month_short(m)]
    /\ NoDocument
    /\ UNCHANGED parser

DateParserParseMonthShort ==
    /\ Idle
    /\ parser = NoParser
    /\ \E m \in MonthArgs :
           last' = [op |-> "DateParser::parse_month_short", arg |-> m,
                    res |-> DateParser_parse_month_short(m)]
    /\ NoDocument
    /\ UNCHANGED parser

ParseHhMm ==
    /\ Idle
    /\ parser = NoParser
    /\ \E t \in TimeArgs :
           last' = [op |-> "parse_hh_mm", arg |-> t, res |-> parse_hh_mm(t)]
    /\ NoDocument
    /\ UNCHANGED parser

ParseDay ==
    /\ Idle
    /\ parser = NoParser
    /\ \E d \in DayArgs :
           last' = [op |-> "parse_day", arg |-> d, res |-> parse_day(d)]
    /\ NoDocument
    /\ UNCHANGED parser

PriceParse ==
    /\ Idle
    /\ parser = NoParser
    /\ \E input \in PriceArgs :
           last' = [op |-> "price_parse", arg |-> input, res |-> price_parse(input)]
    /\ NoDocument
    /\ UNCHANGED parser

\* reformat_ws(input), and reformat_ws of its result
ReformatWs ==
    /\ Idle
    /\ parser = NoParser
    /\ \E input \in WsArgs :
           \E w \in {reformat_ws(input)} :
               last' = [op |-> "reformat_ws", arg |-> input, res |-> w,
                        again |-> reformat_ws(w)]
    /\ NoDocument
    /\ UNCHANGED parser

\* Parser::parse_document(doc): `items` is empty and the loop starts
StartParseDocument ==
    /\ Ready
    /\ parser.type = "Parser"
    /\ \E d \in Docs :
           /\ doc' = d
           /\ last' = [op |-> "parse_document: running", arg |-> d]
    /\ pc' = "loop"
    /\ idx' = 0
    /\ items' = <<>>
    /\ examined' = {}
    /\ UNCHANGED parser

\* a loop body that puts the new item in front of the earlier ones
ParseListingOk_prepend ==
    /\ pc = "loop"
    /\ idx < Len(doc)
    /\ \E r \in {parse_listing(parser, idx, doc[idx + 1])} :
           /\ r.ok
           /\ items' = <<r.val>> \o items
    /\ examined' = examined \cup {idx}
    /\ idx' = idx + 1
    /\ UNCHANGED <<parser, pc, last, doc>>

\* the loop body on a listing whose fields all pass: items.push(item)
ParseListingOk ==
    /\ pc = "loop"
    /\ idx < Len(doc)
    /\ \E r \in {parse_listing(parser, idx, doc[idx + 1])} :
           /\ r.ok
           /\ items' = Append(items, r.val)
    /\ examined' = examined \cup {idx}
    /\ idx' = idx + 1
    /\ UNCHANGED <<parser, pc, last, doc>>

\* a loop body that steps over a listing with a failing field
ParseListingErr_skip ==
    /\ pc = "loop"
    /\ idx < Len(doc)
    /\ ~parse_listing(parser, idx, doc[idx + 1]).ok
    /\ examined' = examined \cup {idx}
    /\ idx' = idx + 1
    /\ UNCHANGED <<parser, pc, last, doc, items>>

\* a loop body that counts the listings from one in the error
ParseListingErr_one_based ==
    /\ pc = "loop"
    /\ idx < Len(doc)
    /\ \E r \in {parse_listing(parser, idx + 1, doc[idx + 1])} :
           /\ ~r.ok
           /\ last' = [op |-> "parse_document", arg |-> doc, res |-> Err(r.err)]
    /\ examined' = examined \cup {idx}
    /\ items' = <<>>
    /\ pc' = "idle"
    /\ UNCHANGED <<parser, doc, idx>>

\* the loop body on a listing with a failing field: `?` returns the error
\* and the items collected so far are dropped
ParseListingErr ==
    /\ pc = "loop"
    /\ idx < Len(doc)
    /\ \E r \in {parse_listing(parser, idx, doc[idx + 1])} :
           /\ ~r.ok
           /\ last' = [op |-> "parse_document", arg |-> doc, res |-> Err(r.err)]
    /\ examined' = examined \cup {idx}
    /\ items' = <<>>
    /\ pc' = "idle"
    /\ UNCHANGED <<parser, doc, idx>>

\* after the last listing: Ok(items)
FinishParseDocument ==
    /\ pc = "loop"
    /\ idx = Len(doc)
    /\ last' = [op |-> "parse_document", arg |-> doc, res |-> Ok(items)]
    /\ pc' = "idle"
    /\ UNCHANGED <<parser, doc, idx, items, examined>>

\* the caller takes the result of the call that returned
Return ==
    /\ pc = "idle"
    /\ last # NoCall
    /\ parser.state # "panicked"
    /\ last' = NoCall
    /\ NoDocument
    /\ UNCHANGED parser

Next ==
    \/ ParserNew
    \/ DateParserNew
    \/ ParsePostedAt
    \/ DateParserParse
    \/ ParseMonthShort
    \/ DateParserParseMonthShort
    \/ ParseHhMm
    \/ ParseDay
    \/ PriceParse
    \/ ReformatWs
    \/ StartParseDocument
    \/ ParseListingOk
    \/ ParseListingErr
    \/ FinishParseDocument
    \/ Return

Spec == Init /\ [][Next]_vars

-----------------------------------------------------------------------------
(* Properties of the date resolver.  They read the result of the call that *)
(* has just returned (`last`) against the anchor the parser was built      *)
(* with, and state what the result must be from the calendar and the zone  *)
(* rules alone.                                                            *)

ResolverOps == {"parse_posted_at", "DateParser::parse"}

\* the anchor of the parser: its instant, its zone, its local date and year
AnchorUtc == parser.user_today.utc
AnchorTz == parser.user_today.tz
AnchorLocal == AnchorUtc + utc_offset(AnchorTz, AnchorUtc)
AnchorDate == AnchorLocal \div SecsPerDay
AnchorYear == CivilFromDays(AnchorDate)[1]

\* the local reading of an instant in the zone of the anchor
LocalFields(u) == NaiveFields(u + utc_offset(AnchorTz, u))

\* the last call was a resolver call on a text of the absolute form (and not
\* of the relative form), and these are its tokens
AbsCall ==
    /\ last.op \in ResolverOps
    /\ ~REL_TIME_captures(last.arg).some
    /\ ABS_TIME_captures(last.arg).some

AbsToks == ABS_TIME_captures(last.arg).val

\* ... whose three tokens are valid: a day 1..31, one of the twelve month
\* tokens, a time of day
AbsCallValid ==
    /\ AbsCall
    /\ parse_day(AbsToks.day_s).ok
    /\ AbsToks.month_s \in Range(MonthNames)
    /\ parse_hh_mm(AbsToks.hhmm_s).ok

\* the instants that read, in the zone of the anchor, as the day, month and
\* time of the tokens in the year y
AbsInstants(y) ==
    with_ymd_and_hms(AnchorTz, y,
                     CHOOSE i \in DOMAIN MonthNames : MonthNames[i] = AbsToks.month_s,
                     parse_day(AbsToks.day_s).val,
                     parse_hh_mm(AbsToks.hhmm_s).val.hour,
                     parse_hh_mm(AbsToks.hhmm_s).val.minute, 0)

\* the tokens of the absolute form read as date-time fields of the year y
AbsFields(y) ==
    [year |-> y,
     month |-> CHOOSE i \in DOMAIN MonthNames : MonthNames[i] = AbsToks.month_s,
     day |-> parse_day(AbsToks.day_s).val,
     hour |-> parse_hh_mm(AbsToks.hhmm_s).val.hour,
     minute |-> parse_hh_mm(AbsToks.hhmm_s).val.minute,
     second |-> 0]

\* C1, as amended: year rollback of the absolute form.  When the three tokens
\* are valid and the local date-time they give in the anchor's year is one
\* instant, then: if that instant is not after the anchor it is the result;
\* if it is strictly after the anchor, the result is the same local
\* month/day/time in the previous year provided that local date-time is one
\* instant of the zone, and otherwise the call fails with ArithmeticProblem
\* (29 February rolled back out of a leap year, or a local time that the
\* previous year's summer-time change skips or repeats).
C1_YearRollback ==
    (AbsCallValid /\ Cardinality(AbsInstants(AnchorYear)) = 1) =>
        IF The(AbsInstants(AnchorYear)) <= AnchorUtc
        THEN last.res = Ok(The(AbsInstants(AnchorYear)))
        ELSE IF Cardinality(AbsInstants(AnchorYear - 1)) = 1
        THEN last.res = Ok(The(AbsInstants(AnchorYear - 1)))
        ELSE last.res = Err(ArithmeticProblem)

\* C1 as stated: a candidate strictly after the anchor always resolves to
\* the same month/day/time of the previous year
C1_AsStated ==
    (AbsCallValid /\ Cardinality(AbsInstants(AnchorYear)) = 1) =>
        IF The(AbsInstants(AnchorYear)) <= AnchorUtc
        THEN last.res = Ok(The(AbsInstants(AnchorYear)))
        ELSE /\ last.res.ok
             /\ LocalFields(last.res.val) = AbsFields(AnchorYear - 1)

\* "21 huh 19:52" at the anchor 2023-03-25 10:52:01 Europe/Helsinki has been
\* resolved to 2022-04-21 19:52 local, 16:52 UTC
C1_Witness ==
    /\ last.op = "parse_posted_at"
    /\ last.arg = AbsRaw(D2(21), huh, Hhmm(19, 52))
    /\ parser.user_today = DateTime(Helsinki, Naive(2023, 3, 25, 8, 52, 1))
    /\ last.res = Ok(Naive(2022, 4, 21, 16, 52, 0))

\* the last call was a resolver call on a text of the relative form with a
\* valid time of day
RelCallValid ==
    /\ last.op \in ResolverOps
    /\ REL_TIME_captures(last.arg).some
    /\ parse_hh_mm(REL_TIME_captures(last.arg).val.hhmm_s).ok

RelToks == REL_TIME_captures(last.arg).val

\* the local date the day word stands for: the anchor's, or the one before
RelDate == IF RelToks.relday_s = tanaan THEN AnchorDate ELSE AnchorDate - 1

\* that date at the time of the token, as a local date-time
RelLocal ==
    RelDate * SecsPerDay + parse_hh_mm(RelToks.hhmm_s).val.hour * 3600
        + parse_hh_mm(RelToks.hhmm_s).val.minute * 60

\* the instants that read as RelLocal in the zone of the anchor (the zones
\* of the model are 0, 2 or 3 hours ahead of UTC)
RelInstants == {u \in {RelLocal - 3600 * k : k \in 0..3} :
                    u + utc_offset(AnchorTz, u) = RelLocal}

\* C2, as amended: the relative form.  For a valid HH:MM, "tänään HH:MM"
\* resolves to the anchor's local calendar date, and "eilen HH:MM" to the
\* date one day before it, at HH:MM:00 local time, as the UTC instant of that
\* local wall-clock value -- unless the zone skips that wall-clock value or
\* repeats it (a summer-time change), and then the call fails with
\* ArithmeticProblem.
C2_RelativeForm ==
    RelCallValid =>
        IF Cardinality(RelInstants) = 1
        THEN last.res = Ok(The(RelInstants))
        ELSE last.res = Err(ArithmeticProblem)

\* C2 as stated: for every anchor and every valid HH:MM the relative form
\* resolves, to an instant that reads as that date and time
C2_AsStated ==
    RelCallValid =>
        /\ last.res.ok
        /\ last.res.val + utc_offset(AnchorTz, last.res.val) = RelLocal

\* "tänään 01:23" an hour after local midnight of 15 June 2023, which is
\* 14 June in UTC, has been resolved on 15 June: 2023-06-14 22:23 UTC
C2_Witness ==
    /\ last.op = "parse_posted_at"
    /\ last.arg = RelRaw(tanaan, Hhmm(1, 23))
    /\ parser.user_today = DateTime(Helsinki, Naive(2023, 6, 14, 21, 30, 0))
    /\ last.res = Ok(Naive(2023, 6, 14, 22, 23, 0))

\* a time token of the grammars, \d{2}:\d{2}, and the numbers it denotes
HourOf(t) == DigitVal(t[1]) * 10 + DigitVal(t[2])
MinuteOf(t) == DigitVal(t[4]) * 10 + DigitVal(t[5])
IsHHMM(t) ==
    /\ Len(t) = 5
    /\ \A i \in {1, 2, 4, 5} : IsDigit(t[i])
    /\ t[3] = ":"
InRange(t) == HourOf(t) <= 23 /\ MinuteOf(t) <= 59

\* what the relative form gives for the tokens of the last call
RelOutcome ==
    IF ~InRange(RelToks.hhmm_s) THEN Err(InvalidTime(RelToks.hhmm_s))
    ELSE IF Cardinality(RelInstants) = 1 THEN Ok(The(RelInstants))
    ELSE Err(ArithmeticProblem)

\* C5: grammar dispatch.  The resolver tries the relative grammar first and
\* the absolute grammar second and the first that matches decides the
\* outcome: a text the relative grammar matches gets the outcome of the
\* relative form (also when the absolute grammar matches it too); a text
\* only the absolute grammar matches gets an outcome of the absolute form;
\* a text neither matches fails with InvalidHighlevelStructure carrying the
\* whole raw input unmodified.
C5_GrammarDispatch ==
    last.op \in ResolverOps =>
        IF REL_TIME_captures(last.arg).some
        THEN last.grammar = "rel" /\ last.res = RelOutcome
        ELSE IF ABS_TIME_captures(last.arg).some
        THEN /\ last.grammar = "abs"
             /\ \/ last.res.ok
                \/ last.res.err.kind \in {"InvalidDay", "InvalidMonth", "InvalidTime",
                                          "ArithmeticProblem"}
        ELSE /\ last.grammar = "none"
             /\ last.res = Err(InvalidHighlevelStructure(last.arg))

\* "21 huh 19:52 eilen 15:59", which both grammars match, has been resolved
\* as the relative form: yesterday 15:59 of the anchor 2023-03-25 10:52:01
C5_Witness ==
    /\ last.op = "parse_posted_at"
    /\ last.arg = AbsRaw(D2(21), huh, Hhmm(19, 52)) \o SP \o RelRaw(eilen, Hhmm(15, 59))
    /\ ABS_TIME_captures(last.arg).some
    /\ parser.user_today = DateTime(Helsinki, Naive(2023, 3, 25, 8, 52, 1))
    /\ last.res = Ok(Naive(2023, 3, 24, 13, 59, 0))

\* the last call was a resolver call on a raw text of three tokens, a
\* number, three letters and a time: an absolute-form raw timestamp
AbsShaped ==
    /\ last.op \in ResolverOps
    /\ Len(split_whitespace(last.arg)) = 3
    /\ Len(split_whitespace(last.arg)[1]) > 0
    /\ \A i \in DOMAIN split_whitespace(last.arg)[1] : IsDigit(split_whitespace(last.arg)[1][i])
    /\ Len(split_whitespace(last.arg)[2]) = 3
    /\ \A i \in 1..3 : IsAlpha(split_whitespace(last.arg)[2][i])
    /\ IsHHMM(split_whitespace(last.arg)[3])

\* the number the day token of such a text denotes (100 for 100 and more)
DayNumber == DecimalFrom(split_whitespace(last.arg)[1], 0, 100)

\* the number a text denotes for str::parse::<u32>: digits, after an
\* optional "+"; -1 when it denotes none
Denoted(t) ==
    IF Len(t) > 0 /\ \A i \in DOMAIN t : IsDigit(t[i]) THEN DecimalFrom(t, 0, 100)
    ELSE IF Len(t) > 1 /\ t[1] = "+" /\ \A i \in 2..Len(t) : IsDigit(t[i])
    THEN DecimalFrom(Tail(t), 0, 100)
    ELSE 0 - 1

\* C6 as stated: the day bound.  Every absolute-form raw timestamp whose day
\* token denotes a number outside 1..31 ("0", "32", or a number of more than
\* two digits) fails with InvalidDay; parse_day succeeds exactly for the
\* numbers 1..31 and returns that number.
C6_AsStated ==
    /\ (AbsShaped /\ DayNumber \notin 1..31) =>
           ~last.res.ok /\ last.res.err.kind = "InvalidDay"
    /\ last.op = "parse_day" =>
           IF Denoted(last.arg) \in 1..31
           THEN last.res = Ok(Denoted(last.arg))
           ELSE last.res = Err(InvalidDay(last.arg))

\* the time token of the last call is \d{2}:\d{2} with an hour of 24 or
\* more, or a minute of 60 or more
BadTime(t) == IsHHMM(t) /\ ~InRange(t)

\* C7, as amended: validation of the time of day.  For every two-digit hour
\* 00..23 and minute 00..59 parse_hh_mm yields that hour and minute and
\* second 0; for every HH:MM with hour >= 24 or minute >= 60 it fails with
\* InvalidTime carrying the token.  The resolver returns that same error for
\* the relative form always, and for the absolute form when the day and
\* month tokens are valid (they are validated before the time).
C7_TimeOfDay ==
    /\ (last.op = "parse_hh_mm" /\ IsHHMM(last.arg)) =>
           IF InRange(last.arg)
           THEN last.res = Ok([hour |-> HourOf(last.arg), minute |-> MinuteOf(last.arg),
                               second |-> 0])
           ELSE last.res = Err(InvalidTime(last.arg))
    /\ (last.op \in ResolverOps /\ REL_TIME_captures(last.arg).some
          /\ BadTime(RelToks.hhmm_s)) =>
           last.res = Err(InvalidTime(RelToks.hhmm_s))
    /\ (AbsCall /\ BadTime(AbsToks.hhmm_s)
          /\ Denoted(AbsToks.day_s) \in 1..31
          /\ AbsToks.month_s \in Range(MonthNames)) =>
           last.res = Err(InvalidTime(AbsToks.hhmm_s))

\* C7 as stated: the resolver returns InvalidTime for every absolute-form
\* text with such a time, whatever its day and month tokens are
C7_AsStated ==
    /\ (last.op = "parse_hh_mm" /\ IsHHMM(last.arg)) =>
           IF InRange(last.arg)
           THEN last.res = Ok([hour |-> HourOf(last.arg), minute |-> MinuteOf(last.arg),
                               second |-> 0])
           ELSE last.res = Err(InvalidTime(last.arg))
    /\ (last.op \in ResolverOps /\ REL_TIME_captures(last.arg).some
          /\ BadTime(RelToks.hhmm_s)) =>
           last.res = Err(InvalidTime(RelToks.hhmm_s))
    /\ (AbsCall /\ BadTime(AbsToks.hhmm_s)) =>
           last.res = Err(InvalidTime(AbsToks.hhmm_s))

\* "31 jou 25:48", with a valid day and month, has failed with
\* InvalidTime("25:48")
C7_Witness ==
    /\ last.op = "parse_posted_at"
    /\ last.arg = AbsRaw(D2(31), jou, Hhmm(25, 48))
    /\ last.res = Err(InvalidTime(Hhmm(25, 48)))

\* the ordinal of a month token among the twelve, 0 for any other text
Ordinal(t) == IF t \in Range(MonthNames)
              THEN CHOOSE i \in DOMAIN MonthNames : MonthNames[i] = t
              ELSE 0

\* C8, as amended: month tokens.  parse_month_short maps tam, hel, maa, huh,
\* tou, kes, hei, elo, syy, lok, mar, jou to the ordinals 1..12 in that
\* order.  The one of parsing.rs compares the lowercased token, so "TAM" and
\* "Huh" succeed like "tam" and "huh", and a token fails with InvalidMonth,
\* carrying the token as given, exactly when its lowercase form is none of
\* the twelve; the one of dateparser.rs compares the token as given, and
\* there every token that is not literally one of the twelve fails so.
C8_MonthTokens ==
    /\ MonthNames = << <<"t", "a", "m">>, <<"h", "e", "l">>, <<"m", "a", "a">>,
                       <<"h", "u", "h">>, <<"t", "o", "u">>, <<"k", "e", "s">>,
                       <<"h", "e", "i">>, <<"e", "l", "o">>, <<"s", "y", "y">>,
                       <<"l", "o", "k">>, <<"m", "a", "r">>, <<"j", "o", "u">> >>
    /\ last.op = "parse_month_short" =>
           IF Ordinal(to_lowercase(last.arg)) > 0
           THEN last.res = Ok(Ordinal(to_lowercase(last.arg)))
           ELSE last.res = Err(InvalidMonth(last.arg))
    /\ last.op = "DateParser::parse_month_short" =>
           IF Ordinal(last.arg) > 0
           THEN last.res = Ok(Ordinal(last.arg))
           ELSE last.res = Err(InvalidMonth(last.arg))

\* C8 as stated: every token other than the twelve, differently-cased
\* variants included, fails with InvalidMonth carrying the token
C8_AsStated ==
    last.op \in {"parse_month_short", "DateParser::parse_month_short"} =>
        IF Ordinal(last.arg) > 0
        THEN last.res = Ok(Ordinal(last.arg))
        ELSE last.res = Err(InvalidMonth(last.arg))

\* parse_month_short("Huh") of parsing.rs has given April
C8_Witness ==
    /\ last.op = "parse_month_short"
    /\ last.arg = Huh
    /\ last.res = Ok(4)

-----------------------------------------------------------------------------
(* Properties of the item extractor.  `doc` is the document of the call,   *)
(* `examined` the indices of the listing nodes the loop body has run on.   *)

\* parse_document has returned
Extracted == last.op = "parse_document"

\* the outcome of the loop body on the listing node at the zero-based
\* position k of the document
Outcome(k) == parse_listing(parser, k, doc[k + 1])

\* the positions of the listing nodes with a failing field
Failing == {k \in 0..(Len(doc) - 1) : ~Outcome(k).ok}

\* C3: extraction is all-or-nothing.  When parse_document returns, either
\* no listing node fails and the result is Ok with one Item per listing
\* node, or the result is the Err of the lowest-index failing listing, no
\* Item is kept (not those of the earlier listings either) and no listing
\* after the failing one has been examined.  While the loop runs, the
\* listings examined are those before the current one.
C3_AllOrNothing ==
    /\ pc = "loop" => examined = 0..(idx - 1) /\ Len(items) = idx
    /\ Extracted =>
           IF Failing = {}
           THEN /\ last.res.ok
                /\ Len(last.res.val) = Len(doc)
                /\ \A k \in 0..(Len(doc) - 1) : last.res.val[k + 1] = Outcome(k).val
                /\ examined = 0..(Len(doc) - 1)
           ELSE /\ last.res = Err(Outcome(Min(Failing)).err)
                /\ items = <<>>
                /\ examined = 0..Min(Failing)

\* a document of a good listing and a listing without href has failed on
\* the second one: the Item of the first is not returned
C3_Witness ==
    /\ Extracted
    /\ Len(doc) = 2
    /\ Outcome(0).ok
    /\ last.res = Err([item_idx |-> 1, item_id |-> Some(<<"6">>),
                       error |-> MissingAttribute("Href")])
    /\ items = <<>>

\* C4 as stated: no core operation is fatal.  Parser::new, parse_posted_at,
\* price_parse and parse_document complete with a value and never panic.
C4_NeverPanics == parser.state # "panicked"

\* C9: when parse_document fails, the item_idx of the error is the
\* zero-based position of the failing listing among the listing nodes of the
\* document: the loop stopped there, that listing has a failing field, and
\* every listing at a smaller position passes all of its field checks.
C9_ErrorIndex ==
    (Extracted /\ ~last.res.ok) =>
        /\ last.res.err.item_idx \in 0..(Len(doc) - 1)
        /\ last.res.err.item_idx = idx
        /\ ~Outcome(last.res.err.item_idx).ok
        /\ last.res.err.error = Outcome(last.res.err.item_idx).err.error
        /\ \A j \in 0..(last.res.err.item_idx - 1) : Outcome(j).ok

\* a document has failed on its second listing (position 1) after a first
\* listing that passed
C9_Witness ==
    /\ Extracted
    /\ ~last.res.ok
    /\ last.res.err.item_idx = 1
    /\ Outcome(0).ok
    /\ last.res.err.error = MissingAttribute("PostedAt")

\* the failure is in the ID step
IdStepError(e) ==
    \/ e = MissingAttribute("ID")
    \/ e.kind = "UnexpectedValue" /\ e.attr = "ID"

\* C10: in every ItemParseError returned by parse_document, item_id is None
\* exactly when the failure is in the ID step (MissingAttribute(ID) or
\* UnexpectedValue(ID, raw)); for a failure of a later field, item_id is Some
\* of the id attribute of the failing listing with the prefix "item_"
\* removed.
C10_ErrorItemId ==
    (Extracted /\ ~last.res.ok) =>
        /\ last.res.err.item_id = None <=> IdStepError(last.res.err.error)
        /\ ~IdStepError(last.res.err.error) =>
               /\ doc[idx + 1].id.some
               /\ PREFIX \o last.res.err.item_id.val = doc[idx + 1].id.val

\* a listing with the id "item_11" has failed in the date step: the error
\* carries Some("11")
C10_Witness ==
    /\ Extracted
    /\ ~last.res.ok
    /\ last.res.err.error.kind = "InvalidDate"
    /\ last.res.err.item_id = Some(D2(11))

\* the Item `item` is built from the listing node `element`: its id, link,
\* company flag, thumbnail and original date text are those of the node
BuiltFrom(item, element) ==
    /\ element.id.some
    /\ PREFIX \o item.item_id = element.id.val
    /\ Some(item.href) = element.href
    /\ item.is_company_ad = (element.company_ad = Some(<<"1">>))
    /\ item.thumbnail_url = element.img
    /\ element.posted_at.some
    /\ item.posted_at_orig = join(split_whitespace(element.posted_at.val), SP)

\* C11: successful extraction is complete and ordered.  For a document of N
\* listing nodes whose fields are all well-formed parse_document returns Ok
\* with exactly N Items, the k-th built from the k-th listing node (none
\* skipped, duplicated or reordered); a document without listing nodes gives
\* Ok of the empty list.  While the loop runs, the Items collected are those
\* of the listings before the current one, in order.
C11_CompleteOrdered ==
    /\ pc = "loop" =>
           /\ Len(items) = idx
           /\ \A k \in 1..Len(items) : BuiltFrom(items[k], doc[k])
    /\ (Extracted /\ Failing = {}) =>
           /\ last.res.ok
           /\ Len(last.res.val) = Len(doc)
           /\ \A k \in 1..Len(doc) : BuiltFrom(last.res.val[k], doc[k])
    /\ (Extracted /\ doc = <<>>) => last.res = Ok(<<>>)

\* a document of two different well-formed listings, "item_2" then
\* "item_1", has given two Items with the ids "2" and "1" in that order
C11_Witness ==
    /\ Extracted
    /\ doc = <<Good2, Good>>
    /\ last.res.ok
    /\ Len(last.res.val) = 2
    /\ last.res.val[1].item_id = <<"2">>
    /\ last.res.val[2].item_id = <<"1">>

-----------------------------------------------------------------------------
(* Properties of the price parser                                          *)

\* all tokens of a sequence of tokens but the last
Front(toks) == SubSeq(toks, 1, Len(toks) - 1)

\* the text is one or more digit groups separated by whitespace, followed
\* by whitespace and the unit symbol (whitespace around it allowed)
DigitGroupsAndUnit(t) ==
    /\ Len(split_whitespace(t)) >= 2
    /\ split_whitespace(t)[Len(split_whitespace(t))] = EUR
    /\ \A k \in 1..(Len(split_whitespace(t)) - 1) :
           \A i \in DOMAIN split_whitespace(t)[k] : IsDigit(split_whitespace(t)[k][i])

\* the digits of such a text, its groups put together
DigitsOf(t) == concat(Front(split_whitespace(t)))

\* the text contains no digit
NoDigit(t) == \A i \in DOMAIN t : ~IsDigit(t[i])

\* C12, as amended: price parsing.  For every input of one or more digit
\* groups separated by whitespace, followed by whitespace and the unit
\* symbol, whose digits put together denote a number of at most 2^31 - 1,
\* price_parse returns that number with the unit as it appeared; when the
\* number is larger it fails with InvalidPrice carrying the input; and every
\* input without a digit fails with InvalidPrice carrying the input.
C12_PriceParsing ==
    last.op = "price_parse" =>
        /\ DigitGroupsAndUnit(last.arg) =>
               IF FitsFrom(DigitsOf(last.arg), 0, I32Max)
               THEN last.res = Ok([value |-> DecimalFrom(DigitsOf(last.arg), 0, I32Max),
                                   unit |-> EUR])
               ELSE last.res = Err(InvalidPrice(last.arg))
        /\ NoDigit(last.arg) => last.res = Err(InvalidPrice(last.arg))

\* C12 as stated: every such input gives the number of its digits
C12_AsStated ==
    last.op = "price_parse" =>
        /\ DigitGroupsAndUnit(last.arg) =>
               /\ last.res.ok
               /\ last.res.val.unit = EUR
               /\ FitsFrom(DigitsOf(last.arg), 0, I32Max)
               /\ last.res.val.value = DecimalFrom(DigitsOf(last.arg), 0, I32Max)
        /\ NoDigit(last.arg) => last.res = Err(InvalidPrice(last.arg))

\* price_parse(" 1 599  €") has given 1599 "€"
C12_Witness ==
    /\ last.op = "price_parse"
    /\ last.arg = SP \o <<"1">> \o SP \o <<"5", "9", "9">> \o <<" ", " ">> \o EUR
    /\ last.res = Ok([value |-> 1599, unit |-> EUR])

-----------------------------------------------------------------------------
(* Properties of the Items and errors of parse_document, field by field    *)

\* the Items the call has produced: those returned, or collected so far
Produced == IF Extracted /\ last.res.ok THEN last.res.val ELSE items

\* the listing has a price node with a text that is not empty
HasPriceText(element) == element.price.some /\ element.price.val # <<>>

\* C13, as amended: price absence.  In every Item from parse_document, price
\* is None exactly when the listing has no price text node or its price node
\* has an empty text; a listing whose price text is not empty gives an Item
\* only with Some price, so an invalid price text never gives an Item with
\* price None (extraction fails on it).
C13_PriceAbsence ==
    \A k \in 1..Len(Produced) :
        (Produced[k].price = None) <=> ~HasPriceText(doc[k])

\* C13 as stated: price is None only when the listing has no price text
\* node; an empty price text makes extraction fail
C13_AsStated ==
    \A k \in 1..Len(Produced) :
        (Produced[k].price = None) => ~doc[k].price.some

\* a listing with a price node of empty text has given an Item with price
\* None
C13_Witness ==
    /\ Extracted
    /\ last.res.ok
    /\ Len(doc) = 1
    /\ doc[1].price = Some(<<>>)
    /\ last.res.val[1].price = None

\* the text starts with the prefix "item_"
HasPrefix(t) == Len(t) >= Len(PREFIX) /\ SubSeq(t, 1, Len(PREFIX)) = PREFIX

\* C14 as stated: in every Item from parse_document, item_id is a non-empty
\* string, the id attribute of the listing with the prefix "item_" removed;
\* a missing id attribute gives MissingAttribute(ID) and one that does not
\* start with the prefix gives UnexpectedValue(ID, raw).
C14_AsStated ==
    /\ \A k \in 1..Len(Produced) :
           /\ Produced[k].item_id # <<>>
           /\ doc[k].id = Some(PREFIX \o Produced[k].item_id)
    /\ (Extracted /\ ~last.res.ok /\ ~doc[idx + 1].id.some) =>
           last.res.err.error = MissingAttribute("ID")
    /\ (Extracted /\ ~last.res.ok /\ doc[idx + 1].id.some
          /\ ~HasPrefix(doc[idx + 1].id.val)) =>
           last.res.err.error = UnexpectedValue("ID", doc[idx + 1].id.val)

-----------------------------------------------------------------------------
(* Properties of reformat_ws                                               *)

\* the positions where a token (a longest run without whitespace) starts
TokenStarts(t) == {i \in DOMAIN t : ~IsSpace(t[i]) /\ (i = 1 \/ IsSpace(t[i - 1]))}

\* the token that starts at the position i
TokenAt(t, i) ==
    SubSeq(t, i, CHOOSE e \in i..Len(t) :
                     /\ \A j \in i..e : ~IsSpace(t[j])
                     /\ (e = Len(t) \/ IsSpace(t[e + 1])))

\* the k-th smallest element of a set of numbers
Kth(S, k) == CHOOSE x \in S : Cardinality({y \in S : y <= x}) = k

\* the tokens of a text in their order
Tokens(t) == [k \in 1..Cardinality(TokenStarts(t)) |-> TokenAt(t, Kth(TokenStarts(t), k))]

\* C15: whitespace normalization.  reformat_ws(s) has no leading or
\* trailing whitespace, has exactly one space character between consecutive
\* tokens and no other whitespace, keeps the tokens of s and their order,
\* and is idempotent: reformat_ws(reformat_ws(s)) = reformat_ws(s).
C15_ReformatWs ==
    last.op = "reformat_ws" =>
        /\ last.res # <<>> => ~IsSpace(last.res[1]) /\ ~IsSpace(last.res[Len(last.res)])
        /\ \A i \in DOMAIN last.res :
               IsSpace(last.res[i]) => last.res[i] = " " /\ ~IsSpace(last.res[i + 1])
        /\ Tokens(last.res) = Tokens(last.arg)
        /\ last.again = last.res

\* reformat_ws of five tabs, "foo", three tabs, "bar", two tabs has given
\* "foo bar"
C15_Witness ==
    /\ last.op = "reformat_ws"
    /\ Len(last.arg) = 16
    /\ Len(Tokens(last.arg)) = 2
    /\ last.res = Txt_foo \o SP \o Txt_bar
    /\ last.again = last.res

-----------------------------------------------------------------------------
(* Properties of single steps of the loop body.  A step is reached in a    *)
(* listing when the steps before it pass; "the other fields are            *)
(* well-formed" is said by putting a well-formed value in the place of the *)
(* field in question.                                                      *)

\* the normalized text: the tokens joined by single spaces
Normalized(t) == join(Tokens(t), SP)

\* the normalized texts of the combined nodes from the j-th on, joined by
\* single spaces
RECURSIVE JoinedFrom(_, _)
JoinedFrom(combined, j) ==
    IF j > Len(combined) THEN <<>>
    ELSE IF j = Len(combined) THEN Normalized(combined[j])
    ELSE Normalized(combined[j]) \o SP \o JoinedFrom(combined, j + 1)

\* the listing on which the call failed
FailedListing == doc[idx + 1]

\* the last call failed on a listing that passes with `field` set to `good`
FailedOnlyIn(field, good) ==
    /\ Extracted
    /\ ~last.res.ok
    /\ parse_listing(parser, idx, [FailedListing EXCEPT ![field] = good]).ok

\* C16: the combined field split.  For a listing of k combined sub-nodes
\* whose other fields are well-formed: k = 0 fails with
\* MissingAttribute(Location), k = 1 with MissingAttribute(Direction); for
\* k >= 2 the Item has the normalized text of the first as location, of the
\* second as direction, and seller None when k = 2 and otherwise Some of the
\* normalized texts of the 3rd to k-th joined in order by single spaces.
C16_CombinedSplit ==
    /\ FailedOnlyIn("combined", Good.combined) =>
           /\ Len(FailedListing.combined) < 2
           /\ Len(FailedListing.combined) = 0 =>
                  last.res.err.error = MissingAttribute("Location")
           /\ Len(FailedListing.combined) = 1 =>
                  last.res.err.error = MissingAttribute("Direction")
    /\ \A k \in 1..Len(Produced) :
           /\ Len(doc[k].combined) >= 2
           /\ Produced[k].location = Normalized(doc[k].combined[1])
           /\ Produced[k].direction = Normalized(doc[k].combined[2])
           /\ Produced[k].seller = IF Len(doc[k].combined) = 2 THEN None
                                   ELSE Some(JoinedFrom(doc[k].combined, 3))

\* a listing of the four combined sub-nodes "L", "D", " S", "s " has given
\* an Item with location "L", direction "D" and seller Some("S s")
C16_Witness ==
    /\ Extracted
    /\ last.res.ok
    /\ doc = <<Good2>>
    /\ last.res.val[1].location = <<"L">>
    /\ last.res.val[1].direction = <<"D">>
    /\ last.res.val[1].seller = Some(<<"S", " ", "s">>)

\* the listing reaches the price step: with its id, data-company-ad and
\* href, and everything else well-formed, it passes
ReachesPrice(element) ==
    parse_listing(parser, idx, [Good EXCEPT !.id = element.id,
                                            !.company_ad = element.company_ad,
                                            !.href = element.href]).ok

\* the text is parsable as a price
Parsable(t) == price_parse(t).ok

\* C17: the price field rule in extraction, for a listing that reaches the
\* price step.  A listing with no price node or with a price node of empty
\* text gets price None and extraction continues (it never fails with
\* InvalidPrice); a listing whose price text is non-empty and unparsable
\* makes parse_document return an ItemParseError with kind
\* InvalidPrice(raw), that listing's index and Some(item_id); a parsable
\* price text yields Some of its Price.
C17_PriceField ==
    /\ \A k \in 1..Len(Produced) :
           IF HasPriceText(doc[k])
           THEN /\ Parsable(doc[k].price.val)
                /\ Produced[k].price = Some(price_parse(doc[k].price.val).val)
           ELSE Produced[k].price = None
    /\ (Extracted /\ ~last.res.ok /\ ReachesPrice(FailedListing)) =>
           IF HasPriceText(FailedListing) /\ ~Parsable(FailedListing.price.val)
           THEN last.res.err =
                    [item_idx |-> idx,
                     item_id |-> Some(Drop(FailedListing.id.val, Len(PREFIX) + 1)),
                     error |-> InvalidPrice(FailedListing.price.val)]
           ELSE last.res.err.error.kind # "InvalidPrice"

\* a well-formed listing followed by the listing "item_14" with the price
\* text "free" has given the error InvalidPrice("free") with index 1 and id
\* Some("14")
C17_Witness ==
    /\ Extracted
    /\ Len(doc) = 2
    /\ doc[1] = Good
    /\ doc[2].price = Some(<<"f", "r", "e", "e">>)
    /\ last.res = Err([item_idx |-> 1,
                       item_id |-> Some(<<"1", "4">>),
                       error |-> InvalidPrice(<<"f", "r", "e", "e">>)])

-----------------------------------------------------------------------------
(* Properties of the errors of the date resolver                           *)

\* the day token of the absolute form denotes a day 1..31
DayValid == Denoted(AbsToks.day_s) \in 1..31

\* its month token is one of the twelve: in any case of the letters for
\* parse_posted_at, literally for DateParser::parse
MonthValid ==
    IF last.op = "parse_posted_at" THEN Ordinal(to_lowercase(AbsToks.month_s)) > 0
    ELSE Ordinal(AbsToks.month_s) > 0

\* its time token is a time of day
TimeValid == InRange(AbsToks.hhmm_s)

\* C18: sub-token error precedence in the absolute form.  The sub-tokens
\* the grammar captures are validated left to right (day, then month, then
\* time) and the error of the leftmost invalid one is returned: an invalid
\* day gives InvalidDay whatever the month and time are, a valid day with an
\* invalid month gives InvalidMonth whatever the time is, and InvalidTime is
\* returned only when day and month are both valid (and then always when
\* the time is invalid).
C18_SubTokenPrecedence ==
    AbsCall =>
        /\ ~DayValid => last.res = Err(InvalidDay(AbsToks.day_s))
        /\ (DayValid /\ ~MonthValid) => last.res = Err(InvalidMonth(AbsToks.month_s))
        /\ (DayValid /\ MonthValid /\ ~TimeValid) =>
               last.res = Err(InvalidTime(AbsToks.hhmm_s))
        /\ (~last.res.ok /\ last.res.err.kind = "InvalidTime") => DayValid /\ MonthValid
        /\ (~last.res.ok /\ last.res.err.kind = "InvalidMonth") => DayValid

\* "32 foo 25:48", where day, month and time are all invalid, has failed
\* with InvalidDay("32")
C18_Witness ==
    /\ last.op = "parse_posted_at"
    /\ last.arg = AbsRaw(D2(32), foo, Hhmm(25, 48))
    /\ last.res = Err(InvalidDay(D2(32)))

\* C19: InvalidRelativeDay is unreachable through the public resolver.  For
\* every anchor and every raw string, parse_posted_at and DateParser::parse
\* never return InvalidRelativeDay, because the relative grammar only
\* captures the day tokens "tänään" and "eilen".
C19_NoInvalidRelativeDay ==
    last.op \in ResolverOps =>
        /\ REL_TIME_captures(last.arg).some => RelToks.relday_s \in {tanaan, eilen}
        /\ ~last.res.ok => last.res.err.kind # "InvalidRelativeDay"

\* "huomenna 10:00", a day word and a time but not a day word of the
\* grammar, has failed with InvalidHighlevelStructure carrying the text
C19_Witness ==
    /\ last.op \in ResolverOps
    /\ last.arg = RelRaw(<<"h", "u", "o", "m", "e", "n", "n", "a">>, Hhmm(10, 0))
    /\ last.res = Err(InvalidHighlevelStructure(last.arg))

\* the number of the month token of the absolute form
MonthNo == Ordinal(to_lowercase(AbsToks.month_s))

\* the tokens of the absolute form as the fields of a local date-time of
\* the year y
TokenFields(y) ==
    [year |-> y, month |-> MonthNo, day |-> Denoted(AbsToks.day_s),
     hour |-> HourOf(AbsToks.hhmm_s), minute |-> MinuteOf(AbsToks.hhmm_s), second |-> 0]

\* the instants that read as these fields in the zone of the anchor: none
\* when the date does not exist or the zone skips the time, two when the
\* zone repeats it
Reads(y) ==
    {u \in {DaysFromCivil(y, MonthNo, Denoted(AbsToks.day_s)) * SecsPerDay
              + HourOf(AbsToks.hhmm_s) * 3600 + MinuteOf(AbsToks.hhmm_s) * 60 - 3600 * k
            : k \in 0..3} :
        LocalFields(u) = TokenFields(y)}

\* (a) the day does not exist in that month of the anchor's year
NoSuchDay == Denoted(AbsToks.day_s) > DaysInMonth(AnchorYear, MonthNo)

\* (b) the day exists and the local time is skipped or repeated
NoSingleTime == ~NoSuchDay /\ Cardinality(Reads(AnchorYear)) # 1

\* (c) the candidate is after the anchor and the same month, day and time a
\* year before is no date-time, or not a single one
NoSingleRollback ==
    /\ Cardinality(Reads(AnchorYear)) = 1
    /\ The(Reads(AnchorYear)) > AnchorUtc
    /\ Cardinality(Reads(AnchorYear - 1)) # 1

\* C20: the cases of ArithmeticProblem.  With a day 1..31, a defined month
\* token and a valid time, the absolute form fails with ArithmeticProblem
\* (and with no other error) exactly when (a) the day does not exist in that
\* month of the anchor's year, or (b) the local wall-clock value is skipped
\* or ambiguous in the anchor's zone, or (c) the year rollback lands on a
\* local date-time that does not exist or is not unique; in every other
\* case it succeeds, with an instant that reads as the day, month and time
\* of the tokens (no adjusted date).  The relative form with a valid time
\* fails with ArithmeticProblem exactly in case (b) and succeeds otherwise.
C20_ArithmeticProblem ==
    /\ (AbsCall /\ DayValid /\ MonthValid /\ TimeValid) =>
           IF NoSuchDay \/ NoSingleTime \/ NoSingleRollback
           THEN last.res = Err(ArithmeticProblem)
           ELSE /\ last.res.ok
                /\ LocalFields(last.res.val) \in {TokenFields(AnchorYear),
                                                  TokenFields(AnchorYear - 1)}
    /\ (last.op \in ResolverOps /\ REL_TIME_captures(last.arg).some
          /\ InRange(RelToks.hhmm_s)) =>
           IF Cardinality(RelInstants) # 1
           THEN last.res = Err(ArithmeticProblem)
           ELSE last.res.ok

\* "26 maa 03:30" at the anchor 2024-03-20 08:00 Europe/Helsinki, which is
\* after the anchor and a year before falls in the hour that the start of
\* summer time skipped, has failed with ArithmeticProblem
C20_Witness ==
    /\ last.op = "parse_posted_at"
    /\ last.arg = AbsRaw(D2(26), maa, Hhmm(3, 30))
    /\ parser.user_today = DateTime(Helsinki, Naive(2024, 3, 20, 6, 0, 0))
    /\ NoSingleRollback
    /\ last.res = Err(ArithmeticProblem)

-----------------------------------------------------------------------------
(* Properties of the parser as an object                                   *)

\* every Item produced has the instant that resolving the text of its date
\* node against the anchor gives, and two listings with the same text have
\* the same instant, wherever they are in the page
SamePage ==
    \A j \in 1..Len(Produced) :
        /\ Ok(Produced[j].posted_at)
               = parse_posted_at(parser, Normalized(doc[j].posted_at.val))
        /\ \A k \in 1..Len(Produced) :
               Normalized(doc[j].posted_at.val) = Normalized(doc[k].posted_at.val)
                   => Produced[j].posted_at = Produced[k].posted_at

\* a call of the resolver on its own gives what the anchor and the text
\* give, whatever calls were made before
SameCall ==
    last.op = "parse_posted_at" => last.res = parse_posted_at(parser, last.arg)

\* C21: the anchor is fixed and resolution is deterministic.  The anchor
\* (today and yesterday) is set once in Parser::new and no call of
\* parse_posted_at or parse_document changes it; the result of resolving a
\* raw timestamp depends only on the anchor and the raw text, so the same
\* text resolves to the same instant at every position in a page and in
\* every call, independently of the calls made before.
C21_AnchorFixed ==
    /\ [][parser # NoParser => parser' = parser]_vars
    /\ [](SamePage /\ SameCall)

\* a page of two listings with the same date text "eilen 15:59" (the first
\* with the id "item_8", the second with "item_1") has given two Items
\* with the same instant, the one of the anchor's yesterday
C21_Witness ==
    /\ Extracted
    /\ last.res.ok
    /\ Len(doc) = 2
    /\ doc[1].id # doc[2].id
    /\ doc[1].posted_at = doc[2].posted_at
    /\ doc[2] = Good
    /\ last.res.val[1].posted_at = last.res.val[2].posted_at
    /\ Ok(last.res.val[2].posted_at) = parse_posted_at(parser, RelRaw(eilen, Hhmm(15, 59)))

-----------------------------------------------------------------------------
(* Properties of the order of the checks in one listing                    *)

\* the checks of a listing in the order of the claim, each with the error
\* kind it reports when the listing fails it (NoDefect when it passes)
NoDefect == [kind |-> "none"]

Check_id(e) ==
    IF ~e.id.some THEN MissingAttribute("ID")
    ELSE IF ~HasPrefix(e.id.val) THEN UnexpectedValue("ID", e.id.val)
    ELSE NoDefect

Check_company_ad(e) ==
    IF ~e.company_ad.some THEN MissingAttribute("CompanyAd")
    ELSE IF e.company_ad.val \notin {<<"0">>, <<"1">>}
    THEN UnexpectedValue("CompanyAd", e.company_ad.val)
    ELSE NoDefect

Check_href(e) == IF ~e.href.some THEN MissingAttribute("Href") ELSE NoDefect

Check_price(e) ==
    IF HasPriceText(e) /\ ~Parsable(e.price.val) THEN InvalidPrice(e.price.val)
    ELSE NoDefect

Check_title(e) == IF ~e.title.some THEN MissingAttribute("Title") ELSE NoDefect

Check_posted_at(e) ==
    IF ~e.posted_at.some THEN MissingAttribute("PostedAt") ELSE NoDefect

Check_resolution(e) ==
    IF ~e.posted_at.some THEN NoDefect
    ELSE The({ IF r.ok THEN NoDefect ELSE InvalidDate(r.err)
               : r \in {parse_posted_at(parser, Normalized(e.posted_at.val))} })

Check_location(e) ==
    IF Len(e.combined) = 0 THEN MissingAttribute("Location") ELSE NoDefect

Check_direction(e) ==
    IF Len(e.combined) < 2 THEN MissingAttribute("Direction") ELSE NoDefect

Checks(e) ==
    << Check_id(e), Check_company_ad(e), Check_href(e), Check_price(e), Check_title(e),
       Check_posted_at(e), Check_resolution(e), Check_location(e), Check_direction(e) >>

\* the positions of the checks the listing fails
Defects(e) == The({ {c \in DOMAIN cs : cs[c] # NoDefect} : cs \in {Checks(e)} })

\* the error kind of the earliest check the listing fails
EarliestDefect(e) ==
    The({ cs[CHOOSE c \in DOMAIN cs : cs[c] # NoDefect /\ \A b \in 1..(c - 1) : cs[b] = NoDefect]
          : cs \in {Checks(e)} })

\* C22: the order of the field checks inside one listing.  parse_document
\* checks the fields in the order id attribute, company-ad attribute
\* (missing: MissingAttribute(CompanyAd); other than "0"/"1":
\* UnexpectedValue(CompanyAd, raw)), href, price, title, posted-at node,
\* posted-at resolution (InvalidDate of the resolver's error), location,
\* direction; the error reported for a listing with defects is the one of
\* the earliest failing check in this order, a listing without defects
\* gives an Item, and a missing thumbnail is never an error
\* (MissingAttribute(Img) is never returned).
C22_CheckOrder ==
    /\ (Extracted /\ ~last.res.ok) =>
           /\ Defects(FailedListing) # {}
           /\ last.res.err.error = EarliestDefect(FailedListing)
           /\ last.res.err.error # MissingAttribute("Img")
    /\ \A k \in 1..Len(Produced) :
           /\ Defects(doc[k]) = {}
           /\ Produced[k].thumbnail_url = doc[k].img

\* the listing "item_7" with the price text "free" and without a title node
\* has failed with InvalidPrice("free"), the earlier of its two defects
C22_Witness ==
    /\ Extracted
    /\ Len(doc) = 1
    /\ Defects(doc[1]) = {4, 5}
    /\ last.res.err.error = InvalidPrice(<<"f", "r", "e", "e">>)

-----------------------------------------------------------------------------
(* Properties of the matching of the raw text as a whole                   *)

\* the text, apart from whitespace around it, is exactly one timestamp of
\* the relative form: a day word, whitespace, HH:MM
ExactlyRelative(t) ==
    /\ Len(Tokens(t)) = 2
    /\ Tokens(t)[1] \in {eilen, tanaan}
    /\ IsHHMM(Tokens(t)[2])

\* ... of the absolute form: a day of one or two digits, whitespace, three
\* letters, whitespace, HH:MM
ExactlyAbsolute(t) ==
    /\ Len(Tokens(t)) = 3
    /\ Len(Tokens(t)[1]) \in 1..2
    /\ \A i \in DOMAIN Tokens(t)[1] : IsDigit(Tokens(t)[1][i])
    /\ Len(Tokens(t)[2]) = 3
    /\ \A i \in 1..3 : IsAlpha(Tokens(t)[2][i])
    /\ IsHHMM(Tokens(t)[3])

\* C23 as stated: whole-input matching.  The resolver succeeds only when
\* the raw text, apart from leading and trailing whitespace, is exactly one
\* relative-form or one absolute-form timestamp; a text with more around a
\* well-formed token sequence (a day of three digits, leading or trailing
\* words, both grammars in one text) is rejected and not resolved from a
\* matching part of it.
C23_AsStated ==
    (last.op \in ResolverOps /\ last.res.ok) =>
        ExactlyRelative(last.arg) \/ ExactlyAbsolute(last.arg)

-----------------------------------------------------------------------------
(* Properties of the resolved instant against the anchor                   *)

\* the local time of day of the anchor, in seconds
AnchorTimeOfDay == AnchorLocal % SecsPerDay

\* C24: results of the absolute form are never in the future.  For every
\* anchor and raw text for which the absolute form resolves, the instant is
\* not after the anchor, its local year is the anchor's local year or the
\* year before, and its local month, day, hour and minute are those of the
\* tokens, with second 0.  The relative form has no such rollback: "tänään
\* HH:MM" with HH:MM later than the anchor's local time of day, when it
\* resolves, gives an instant after the anchor.
C24_NotInFuture ==
    /\ (AbsCall /\ last.res.ok) =>
           /\ last.res.val <= AnchorUtc
           /\ LocalFields(last.res.val).year \in {AnchorYear, AnchorYear - 1}
           /\ LocalFields(last.res.val) = TokenFields(LocalFields(last.res.val).year)
    /\ (last.op \in ResolverOps /\ REL_TIME_captures(last.arg).some /\ last.res.ok
          /\ RelToks.relday_s = tanaan
          /\ HourOf(RelToks.hhmm_s) * 3600 + MinuteOf(RelToks.hhmm_s) * 60 > AnchorTimeOfDay) =>
           last.res.val > AnchorUtc

\* "31 jou 23:59" at the anchor 2023-03-25 10:52:01 Europe/Helsinki, which
\* in 2023 is after the anchor, has been resolved to 31 December 2022,
\* 21:59 UTC
C24_Witness ==
    /\ last.op = "parse_posted_at"
    /\ last.arg = AbsRaw(D2(31), jou, Hhmm(23, 59))
    /\ parser.user_today = DateTime(Helsinki, Naive(2023, 3, 25, 8, 52, 1))
    /\ last.res = Ok(Naive(2022, 12, 31, 21, 59, 0))
    /\ last.res.val <= AnchorUtc

-----------------------------------------------------------------------------
(* Properties of the range of a price                                      *)

\* a text of digits without its leading zeros
RECURSIVE StripZeros(_)
StripZeros(d) == IF Len(d) > 0 /\ d[1] = "0" THEN StripZeros(Tail(d)) ELSE d

\* the digits of 2^31 - 1
LimitDigits == <<"2", "1", "4", "7", "4", "8", "3", "6", "4", "7">>

\* the number of the digits d is greater than 2^31 - 1: it has more digits,
\* or as many and a greater one at the first place where they differ
AboveLimit(d) ==
    \/ Len(StripZeros(d)) > Len(LimitDigits)
    \/ /\ Len(StripZeros(d)) = Len(LimitDigits)
       /\ \E i \in DOMAIN LimitDigits :
              /\ DigitVal(StripZeros(d)[i]) > DigitVal(LimitDigits[i])
              /\ \A j \in 1..(i - 1) : StripZeros(d)[j] = LimitDigits[j]

\* the number of the digits d, for a number of at most 2^31 - 1
RECURSIVE NumberOf(_)
NumberOf(d) == IF Len(d) = 0 THEN 0 ELSE NumberOf(Front(d)) * 10 + DigitVal(d[Len(d)])

\* C25: the range of a price.  Price.value is a 32-bit signed integer: for
\* a well-formed price whose digits put together denote a number greater
\* than 2^31 - 1 price_parse returns InvalidPrice carrying the whole input
\* (no wrap-around, no truncation), for every number up to 2^31 - 1 it
\* returns exactly that number, and a successful result is never negative
\* and has the unit "€".
C25_PriceRange ==
    last.op = "price_parse" =>
        /\ last.res.ok =>
               /\ last.res.val.value \in 0..I32Max
               /\ last.res.val.unit = EUR
        /\ DigitGroupsAndUnit(last.arg) =>
               IF AboveLimit(DigitsOf(last.arg))
               THEN last.res = Err(InvalidPrice(last.arg))
               ELSE /\ last.res.ok
                    /\ last.res.val.value = NumberOf(DigitsOf(last.arg))

\* price_parse("2147483648 €"), one more than the largest value, has failed
\* with InvalidPrice carrying the input
C25_Witness ==
    /\ last.op = "price_parse"
    /\ last.arg = D2(21) \o D2(47) \o D2(48) \o D2(36) \o D2(48) \o SP \o EUR
    /\ AboveLimit(DigitsOf(last.arg))
    /\ last.res = Err(InvalidPrice(last.arg))

=============================================================================
